---- MODULE Spec2Model ----
(***************************************************************************)
(* Interaction state machine of SoulConnect (backend/matching,             *)
(* backend/profiles): Like / Pass / BlockedProfile / InterestRequest rows  *)
(* and the Match rows that Like.save derives from them.                    *)
(*                                                                         *)
(* Every HTTP request is one handler invocation.  A handler is a sequence  *)
(* of database statements; statements of different handlers interleave.    *)
(* The database runs in autocommit mode (no ATOMIC_REQUESTS, no            *)
(* transaction.atomic in the views), so a statement outside an atomic      *)
(* block is visible to every later statement.  QuerySet.get_or_create      *)
(* wraps its create() in transaction.atomic: rows written inside that      *)
(* block are visible to the writing handler only until the block commits   *)
(* (READ COMMITTED), and an insert that collides with an uncommitted row   *)
(* of another handler waits for that handler's commit.                     *)
(*                                                                         *)
(* Handler invocations carry no identity of their own: the invocations in  *)
(* progress form a bag of records (inputs, position, local variables).     *)
(***************************************************************************)
EXTENDS Integers, FiniteSets, Sequences, Bags, TLC

\* ---------------------------------------------------------------- bounds
NumProfiles == 2
NumRequests == 3
MaxConcurrent == 2
MaxDays == 1

Profiles == 1..NumProfiles

\* Like.LIKE_TYPE_CHOICES
LikeTypes == {"like", "super_like"}

VARIABLES
    likes,      \* committed Like rows
    matches,    \* committed Match rows
    passes,     \* committed Pass rows
    blocks,     \* committed BlockedProfile rows
    interests,  \* committed InterestRequest rows
    chatRequests,   \* committed ChatRequest rows
    conversations,  \* committed Conversation rows
    messages,   \* committed Message rows
    premium,    \* profiles whose user has is_premium set
    profileRows,    \* the Profile row (with its User's flags) of each profile
    preferences,    \* the PartnerPreference rows
    today,      \* the reading of date.today()
    handlers,   \* bag of the handler invocations in progress
    returned,   \* the invocation that returned in the latest handler step
    started,    \* number of requests that have arrived
    overlap     \* history: some request arrived while another was in progress

\* The chat tables and the premium flags.
chat == <<chatRequests, conversations, messages, premium>>

\* What the scorer and the recommendation query read besides the edges.
registry == <<profileRows, preferences, today>>

vars == <<likes, matches, passes, blocks, interests, chat, registry, handlers,
          returned, started, overlap>>

\* ------------------------------------------------------------ row shapes
\* A row carries the columns the handlers read or write.  The primary key is a
\* fresh uuid4; only its distinctness matters, so it is modelled as the ordinal
\* of the row among the rows with the same natural key.
LikeRow(f, t, ty, n) ==
    [from_profile |-> f, to_profile |-> t, like_type |-> ty, id |-> n]

\* Variant: a new Match row is created with the chat unlocked.
MatchRow_Unlocked(p1, p2, n) ==
    [profile1 |-> p1, profile2 |-> p2, status |-> "active",
     unmatched_by |-> 0, unmatched_at |-> 0,
     chat_unlocked |-> TRUE, chat_unlocked_at |-> 0, id |-> n]

\* A new Match row: the field defaults of the model class.  The two
\* timestamps are 0 (null) or the reading of the clock when they were set.
MatchRow(p1, p2, n) ==
    [profile1 |-> p1, profile2 |-> p2, status |-> "active",
     unmatched_by |-> 0, unmatched_at |-> 0,
     chat_unlocked |-> FALSE, chat_unlocked_at |-> 0, id |-> n]

\* No Match instance.
NoMatch == MatchRow(0, 0, 0)

\* timezone.now(): the clock ticks with every arriving request; 1 is the
\* time of whatever was stored before the first request.
Now == started + 1

PassRow(f, t, n) == [from_profile |-> f, to_profile |-> t, id |-> n]

BlockRow(b, t, n) == [blocker |-> b, blocked |-> t, id |-> n]

\* responded_at is 0 (null) until accept or decline sets it.
InterestRow(f, t, st) ==
    [from_profile |-> f, to_profile |-> t, status |-> st, responded_at |-> 0]

NoResp == [status |-> 0, outcome |-> "none", is_match |-> FALSE]

Response(st, out, im) == [status |-> st, outcome |-> out, is_match |-> im]

\* The primary key of a Match row.
MatchPk(m) == <<m.profile1, m.profile2, m.id>>

\* A ChatRequest tied to the Match with primary key mk; n is the row's id.
ChatRequestRow(f, t, mk, st, n) ==
    [from_profile |-> f, to_profile |-> t, match |-> mk, status |-> st,
     responded_at |-> 0, id |-> n]

NoChatRequest == ChatRequestRow(0, 0, <<0, 0, 0>>, "none", 0)

\* The Conversation of the Match with primary key mk (OneToOneField); the
\* participants are the Match's profile1 and profile2.
ConversationRow(mk) ==
    [match |-> mk, participant1 |-> mk[1], participant2 |-> mk[2],
     is_active |-> TRUE, last_message_by |-> 0,
     unread_count_p1 |-> 0, unread_count_p2 |-> 0]

NoConversation == ConversationRow(<<0, 0, 0>>)

\* A new Message of the Conversation of Match mk; n is the row's id.
MessageRow(mk, sender, n) ==
    [conversation |-> mk, sender |-> sender, is_read |-> FALSE, id |-> n]

\* A calendar date.
Date(y, m, d) == [year |-> y, month |-> m, day |-> d]

\* A Profile row with the flags of its User: the columns the scorer and the
\* recommendation query read.  created_at orders the rows: registration
\* instants are distinct, and the column holds the rank of the row's instant
\* among them.
ProfileRow(p) ==
    [gender |-> IF p = 1 THEN "M" ELSE "F",
     date_of_birth |-> Date(1994, 1, 1), height_cm |-> 165,
     marital_status |-> "never_married", religion |-> "hindu",
     caste |-> "Brahmin", education |-> "bachelors",
     state |-> "Maharashtra", city |-> "Pune", country |-> "India",
     diet |-> "vegetarian",
     is_active |-> TRUE, is_profile_approved |-> TRUE, is_banned |-> FALSE,
     created_at |-> p]

\* A PartnerPreference row of profile p: the ranges and lists the scorer
\* reads.  A list is modelled as the set of its members (the scorer tests
\* emptiness and membership only); a null height bound is 0.
PartnerPreferenceRow(p) ==
    [profile |-> p, age_from |-> 25, age_to |-> 35,
     height_from |-> 160, height_to |-> 170,
     marital_status |-> {"never_married"}, religion |-> {"hindu"},
     caste |-> {"brahmin"}, caste_no_bar |-> FALSE,
     education |-> {"bachelors", "masters"},
     country |-> {"india"}, state |-> {"maharashtra"}, city |-> {"pune"},
     diet |-> {"vegetarian"}]

\* A handler invocation: the request's inputs (kind, user, target, interest,
\* action), its position pc, its local variables (self_from, self_to,
\* mutual_like, ctx), the rows written inside its open atomic block, the
\* Match, ChatRequest and Conversation instances it has loaded, its response,
\* and two history fields (conflict, recip_at_call).
NoHandler ==
    [kind |-> "none", user |-> 0, target |-> 0, interest |-> <<0, 0>>,
     action |-> "none", pc |-> "none",
     self_from |-> 0, self_to |-> 0, mutual_like |-> FALSE, ctx |-> "none",
     txLikes |-> {}, txMatches |-> {}, match |-> NoMatch,
     chat_request |-> NoChatRequest, conversation |-> NoConversation,
     conflict |-> FALSE, recip_at_call |-> FALSE,
     resp |-> NoResp]

\* ------------------------------------------------------------- queries
\* Like.objects.filter(from_profile=f, to_profile=t)
LikesOf(S, f, t) == {l \in S : l.from_profile = f /\ l.to_profile = t}

\* Match.objects.filter(profile1=p1, profile2=p2)
MatchesOf(S, p1, p2) == {m \in S : m.profile1 = p1 /\ m.profile2 = p2}

\* The invocations in progress besides h.
Others(h) == handlers (-) SetToBag({h})

\* Rows a statement of handler h can see: committed rows and h's own writes.
VisLikes(h) == likes \cup h.txLikes

VisMatches(h) == matches \cup h.txMatches

\* Rows other handlers hold uncommitted.
OtherTxLikes(h) == UNION {g.txLikes : g \in BagToSet(Others(h))}

OtherTxMatches(h) == UNION {g.txMatches : g \in BagToSet(Others(h))}

AllLikes == likes \cup UNION {g.txLikes : g \in BagToSet(handlers)}

AllMatches == matches \cup UNION {g.txMatches : g \in BagToSet(handlers)}

\* min(self.from_profile, self.to_profile, key=lambda p: str(p.id))
Profile1(a, b) == IF b < a THEN b ELSE a

\* max(self.from_profile, self.to_profile, key=lambda p: str(p.id))
Profile2(a, b) == IF b > a THEN b ELSE a

\* Variant: the query looks for the pair in the caller's order only.
MatchBetween_OneWay(S, u, t) == MatchesOf(S, u, t)

\* Match.objects.filter(Q(profile1=u, profile2=t) | Q(profile1=t, profile2=u))
MatchBetween(S, u, t) == MatchesOf(S, u, t) \cup MatchesOf(S, t, u)

\* unique_together = ['from_profile', 'to_profile'] on Like
LikeUniqueViolated(S, f, t) == LikesOf(S, f, t) # {}

\* Variant: the Match table has no unique constraint.
MatchUniqueViolated_Off(S, p1, p2) == FALSE

\* unique_together = ['profile1', 'profile2'] on Match
MatchUniqueViolated(S, p1, p2) == MatchesOf(S, p1, p2) # {}

\* No handler is in progress.
Quiescent == handlers = EmptyBag

\* ---------------------------------------------------------------- Init
\* The day the service is observed on.
Today == Date(2024, 6, 15)

\* The stored rows; no request has arrived.
InitRegistry(rows, prefs, ls, ms) ==
    /\ profileRows = rows
    /\ preferences = prefs
    /\ today = Today
    /\ likes = ls
    /\ matches = ms
    /\ passes = {}
    /\ blocks = {}
    /\ interests = {}
    /\ chatRequests = {}
    /\ conversations = {}
    /\ messages = {}
    /\ premium = {}
    /\ handlers = EmptyBag
    /\ returned = NoHandler
    /\ started = 0
    /\ overlap = FALSE

\* Every profile registered alike, none with a PartnerPreference row.
InitTables(ls, ms) ==
    InitRegistry([p \in Profiles |-> ProfileRow(p)], {}, ls, ms)

\* The state after construction: empty tables.
Init == InitTables({}, {})

\* What profiles 1 and 2 have stored after none, one or both of sendLike(1,2)
\* and sendLike(2,1) ran one after the other, and after profile 1 then
\* unmatched the Match; and what profile 1 has stored after sendLike(1,1).
Stored ==
    LET l12 == LikeRow(1, 2, "like", 1)
        l21 == LikeRow(2, 1, "like", 1)
        m == MatchRow(1, 2, 1)
    IN {[likes |-> {}, matches |-> {}],
        [likes |-> {l12}, matches |-> {}],
        [likes |-> {l12, l21}, matches |-> {m}],
        [likes |-> {l12, l21},
         matches |-> {[m EXCEPT !.status = "unmatched", !.unmatched_by = 1,
                                !.unmatched_at = 1]}],
        [likes |-> {LikeRow(1, 1, "like", 1)}, matches |-> {MatchRow(1, 1, 1)}]}

\* The service some time into its life: one of the Stored states.
InitStored == \E st \in Stored : InitTables(st.likes, st.matches)

\* Some request has arrived, or is about to arrive, while another is in
\* progress.
Overlapping == overlap \/ ~Quiescent

\* A request arrives: at most NumRequests requests are served, at most
\* MaxConcurrent handlers run at a time (the size of the worker pool).
Arrive ==
    /\ started < NumRequests
    /\ BagCardinality(handlers) < MaxConcurrent
    /\ started' = started + 1
    /\ overlap' = Overlapping

\* The arriving request's handler g goes on after its first statement.
Proceed(g) ==
    /\ handlers' = handlers (+) SetToBag({g})
    /\ returned' = NoHandler
    /\ UNCHANGED registry

\* The arriving request's handler returns from its first statement with
\* response rs.
Return(g, rs) ==
    /\ handlers' = handlers
    /\ returned' = [g EXCEPT !.pc = "done", !.resp = rs]
    /\ UNCHANGED registry

\* Handler h goes on as g.
Goto(h, g) ==
    /\ handlers' = Others(h) (+) SetToBag({g})
    /\ returned' = NoHandler
    /\ UNCHANGED <<started, overlap, registry>>

\* Handler h, its locals now those of g, returns the response rs.
FinishAs(h, g, rs) ==
    /\ handlers' = Others(h)
    /\ returned' = [g EXCEPT !.pc = "done", !.resp = rs]
    /\ UNCHANGED <<started, overlap, registry>>

\* Handler h returns the response rs.
Finish(h, rs) == FinishAs(h, h, rs)

\* ------------------------------------------------- SendLikeView.post
\* Variant: the duplicate check looks at the reverse pair.
AlreadyLiked_Reversed(u, t) == LikesOf(likes, t, u) # {}

\* Like.objects.filter(from_profile=request.user.profile,
\*                     to_profile=to_profile).exists()
AlreadyLiked(u, t) == LikesOf(likes, u, t) # {}

\* serializer.is_valid(); to_profile = Profile.objects.get(id=profile_id);
\* if Like.objects.filter(from_profile=..., to_profile=...).exists(): 400
\* recip_at_call is history: in an execution without overlap so far, whether
\* the reciprocal Like was stored when the call was made.
SendLikeBegin(u, t) ==
    LET g == [NoHandler EXCEPT !.kind = "sendLike", !.user = u, !.target = t,
                  !.pc = "like_create",
                  !.recip_at_call = (~Overlapping /\ LikesOf(likes, t, u) # {})]
    IN /\ Arrive
       /\ IF AlreadyLiked(u, t)
          THEN Return(g, Response(400, "already_liked", FALSE))
          ELSE Proceed(g)
       /\ UNCHANGED <<likes, matches, passes, blocks, interests, chat>>

\* Like.objects.create(from_profile=..., to_profile=..., like_type=
\* validated_data.get('like_type', 'like'), ...): super().save() of Like.save,
\* in autocommit.  The like type ty is read from the request here.
\* A collision with the unique constraint raises IntegrityError, which the
\* view does not catch (the request fails with a server error).
LikeCreate(h, ty) ==
    /\ h.pc = "like_create"
    /\ ~LikeUniqueViolated(OtherTxLikes(h), h.user, h.target)
    /\ IF LikeUniqueViolated(likes, h.user, h.target)
       THEN /\ Finish(h, Response(500, "integrity_error", FALSE))
            /\ UNCHANGED likes
       ELSE /\ likes' = likes \cup {LikeRow(h.user, h.target, ty,
                   Cardinality(LikesOf(AllLikes, h.user, h.target)) + 1)}
            /\ Goto(h, [h EXCEPT !.pc = "save_mutual",
                                 !.self_from = h.user,
                                 !.self_to = h.target,
                                 !.ctx = "view"])
    /\ UNCHANGED <<matches, passes, blocks, interests, chat>>

\* --------------------------------------------------------- Like.save
\* Where Like.save returns to: the view, or the get_or_create of accept.
AfterSave(h) == IF h.ctx = "view" THEN "like_is_match" ELSE "goc_commit"

\* mutual_like = Like.objects.filter(from_profile=self.to_profile,
\*                                   to_profile=self.from_profile).exists()
\* if mutual_like: Match.objects.get_or_create(profile1=min(...),
\*                                             profile2=max(...)): the get.
\* The two queries are one step: no handler deletes a Like row, so a
\* reciprocal Like seen by the first query is still there at the second, and
\* every outcome of the two queries run apart is an outcome of running them
\* together at the time of the second.
SaveMutual(h) ==
    /\ h.pc = "save_mutual"
    /\ LET m == LikesOf(VisLikes(h), h.self_to, h.self_from) # {}
           p1 == Profile1(h.self_from, h.self_to)
           p2 == Profile2(h.self_from, h.self_to)
       IN Goto(h, [h EXCEPT !.pc = IF m /\ MatchesOf(VisMatches(h), p1, p2) = {}
                                   THEN "match_create" ELSE AfterSave(h),
                            !.mutual_like = m])
    /\ UNCHANGED <<likes, matches, passes, blocks, interests, chat>>

\* get_or_create: with transaction.atomic(): self.create(**params).
\* IntegrityError from the unique constraint is caught by get_or_create, which
\* then returns self.get(**kwargs); Like.save does not use the result.
\* Called from the view the block commits at once; called inside the atomic
\* block of accept's get_or_create the row stays in that block.
MatchCreate(h) ==
    /\ h.pc = "match_create"
    /\ LET p1 == Profile1(h.self_from, h.self_to)
           p2 == Profile2(h.self_from, h.self_to)
           row == MatchRow(p1, p2, Cardinality(MatchesOf(AllMatches, p1, p2)) + 1)
       IN /\ ~MatchUniqueViolated(OtherTxMatches(h), p1, p2)
          /\ IF MatchUniqueViolated(VisMatches(h), p1, p2)
             THEN /\ Goto(h, [h EXCEPT !.pc = AfterSave(h), !.conflict = TRUE])
                  /\ UNCHANGED matches
             ELSE IF h.ctx = "view"
                  THEN /\ matches' = matches \cup {row}
                       /\ Goto(h, [h EXCEPT !.pc = AfterSave(h)])
                  ELSE /\ UNCHANGED matches
                       /\ Goto(h, [h EXCEPT !.pc = AfterSave(h),
                                            !.txMatches = @ \cup {row}])
    /\ UNCHANGED <<likes, passes, blocks, interests, chat>>

\* is_match = Match.objects.filter(Q(...) | Q(...)).exists(); 201
LikeIsMatch(h) ==
    /\ h.pc = "like_is_match"
    /\ Finish(h, Response(201, "like_sent",
                 MatchBetween(VisMatches(h), h.user, h.target) # {}))
    /\ UNCHANGED <<likes, matches, passes, blocks, interests, chat>>

\* -------------------------------------------------- SendPassView.post
\* Pass.objects.filter(from_profile=f, to_profile=t)
PassesOf(S, f, t) == {p \in S : p.from_profile = f /\ p.to_profile = t}

\* Variant: the Pass table has no unique constraint.
PassUniqueViolated_Off(S, f, t) == FALSE

\* unique_together = ['from_profile', 'to_profile'] on Pass
PassUniqueViolated(S, f, t) == PassesOf(S, f, t) # {}

\* Pass.objects.get_or_create(from_profile=request.user.profile,
\*                            to_profile=to_profile): the get; 200 if found.
SendPass(u, t) ==
    LET g == [NoHandler EXCEPT !.kind = "sendPass", !.user = u, !.target = t,
                               !.pc = "pass_create"]
    IN /\ Arrive
       /\ IF PassesOf(passes, u, t) # {}
          THEN Return(g, Response(200, "passed", FALSE))
          ELSE Proceed(g)
       /\ UNCHANGED <<likes, matches, passes, blocks, interests, chat>>

\* get_or_create: with transaction.atomic(): self.create(**params); the block
\* holds this one insert and commits with it.  IntegrityError is caught by
\* get_or_create, which returns the stored row.  200 either way.
PassCreate(h) ==
    /\ h.pc = "pass_create"
    /\ IF PassUniqueViolated(passes, h.user, h.target)
       THEN /\ UNCHANGED passes
            /\ FinishAs(h, [h EXCEPT !.conflict = TRUE],
                        Response(200, "passed", FALSE))
       ELSE /\ passes' = passes \cup {PassRow(h.user, h.target,
                    Cardinality(PassesOf(passes, h.user, h.target)) + 1)}
            /\ Finish(h, Response(200, "passed", FALSE))
    /\ UNCHANGED <<likes, matches, blocks, interests, chat>>

\* ---------------------------------------------- BlockProfileView.post
\* BlockedProfile.objects.filter(blocker=b, blocked=t)
BlocksOf(S, b, t) == {x \in S : x.blocker = b /\ x.blocked = t}

\* unique_together = ['blocker', 'blocked'] on BlockedProfile
BlockUniqueViolated(S, b, t) == BlocksOf(S, b, t) # {}

\* Variant: the self-block check is missing.
IsSelfBlock_Never(u, t) == FALSE

\* profile_to_block.user == request.user
IsSelfBlock(u, t) == t = u

\* if profile_to_block.user == request.user: 400
\* BlockedProfile.objects.get_or_create(blocker=..., blocked=...): the get;
\* 200 if found.
BlockProfile(u, t) ==
    LET g == [NoHandler EXCEPT !.kind = "block", !.user = u, !.target = t,
                               !.pc = "block_create"]
    IN /\ Arrive
       /\ IF IsSelfBlock(u, t)
          THEN Return(g, Response(400, "cannot_block_self", FALSE))
          ELSE IF BlocksOf(blocks, u, t) # {}
               THEN Return(g, Response(200, "blocked", FALSE))
               ELSE Proceed(g)
       /\ UNCHANGED <<likes, matches, passes, blocks, interests, chat>>

\* get_or_create: with transaction.atomic(): self.create(**params).
\* IntegrityError is caught by get_or_create.  200 either way.
BlockCreate(h) ==
    /\ h.pc = "block_create"
    /\ IF BlockUniqueViolated(blocks, h.user, h.target)
       THEN /\ UNCHANGED blocks
            /\ FinishAs(h, [h EXCEPT !.conflict = TRUE],
                        Response(200, "blocked", FALSE))
       ELSE /\ blocks' = blocks \cup {BlockRow(h.user, h.target,
                    Cardinality(BlocksOf(blocks, h.user, h.target)) + 1)}
            /\ Finish(h, Response(200, "blocked", FALSE))
    /\ UNCHANGED <<likes, matches, passes, interests, chat>>

\* -------------------------------------------- UnblockProfileView.post
\* BlockedProfile.objects.filter(blocker=..., blocked_id=profile_id).delete()
UnblockProfile(u, t) ==
    /\ Arrive
    /\ blocks' = blocks \ BlocksOf(blocks, u, t)
    /\ Return([NoHandler EXCEPT !.kind = "unblock", !.user = u, !.target = t],
              Response(200, "unblocked", FALSE))
    /\ UNCHANGED <<likes, matches, passes, interests, chat>>

\* --------------------------------------------------- UnmatchView.post
\* The row of table S with the primary key of the instance m.
SamePk(S, m) ==
    {x \in S : x.profile1 = m.profile1 /\ x.profile2 = m.profile2 /\ x.id = m.id}

\* Variant: save inserts a further row.
SaveMatch_Insert(S, m) == S \cup {[m EXCEPT !.id = m.id + 1]}

\* Variant: the row is deleted.
SaveMatch_Delete(S, m) == S \ SamePk(S, m)

\* Model.save() of a loaded Match instance m: UPDATE of every column of the
\* row with m's primary key.
SaveMatch(S, m) == (S \ SamePk(S, m)) \cup {m}

\* Variant: any caller may unmatch.
IsParticipant_Any(m, u) == TRUE

\* Q(profile1=profile) | Q(profile2=profile)
IsParticipant(m, u) == m.profile1 = u \/ m.profile2 = u

\* match = Match.objects.get(Q(profile1=profile) | Q(profile2=profile),
\*                           id=match_id); Match.DoesNotExist: 404.
\* The request names the Match row m by its id.
UnmatchBegin(u, m) ==
    LET g == [NoHandler EXCEPT !.kind = "unmatch", !.user = u,
                               !.match = m, !.pc = "unmatch_save"]
    IN /\ m \in matches
       /\ Arrive
       /\ IF IsParticipant(m, u)
          THEN Proceed(g)
          ELSE Return(g, Response(404, "match_not_found", FALSE))
       /\ UNCHANGED <<likes, matches, passes, blocks, interests, chat>>

\* Match.unmatch: self.status = 'unmatched'; self.unmatched_by = profile;
\* self.unmatched_at = timezone.now(); self.save(); 200
UnmatchSave(h) ==
    /\ h.pc = "unmatch_save"
    /\ LET m == [h.match EXCEPT !.status = "unmatched",
                                !.unmatched_by = h.user,
                                !.unmatched_at = Now]
       IN /\ matches' = SaveMatch(matches, m)
          /\ Finish(h, Response(200, "unmatched", FALSE))
    /\ UNCHANGED <<likes, passes, blocks, interests, chat>>

\* ---------------------------------------------- SendInterestView.post
\* InterestRequest.objects.filter(from_profile=..., to_profile=...)
InterestsOf(S, f, t) == {i \in S : i.from_profile = f /\ i.to_profile = t}

\* if InterestRequest.objects.filter(...).exists(): 400
SendInterestBegin(u, t) ==
    LET g == [NoHandler EXCEPT !.kind = "sendInterest", !.user = u,
                               !.target = t, !.pc = "interest_create"]
    IN /\ Arrive
       /\ IF InterestsOf(interests, u, t) # {}
          THEN Return(g, Response(400, "already_sent", FALSE))
          ELSE Proceed(g)
       /\ UNCHANGED <<likes, matches, passes, blocks, interests, chat>>

\* InterestRequest.objects.create(...); 201.  unique_together raises
\* IntegrityError, which the view does not catch.
InterestCreate(h) ==
    /\ h.pc = "interest_create"
    /\ IF InterestsOf(interests, h.user, h.target) # {}
       THEN /\ Finish(h, Response(500, "integrity_error", FALSE))
            /\ UNCHANGED interests
       ELSE /\ interests' = interests \cup
                   {InterestRow(h.user, h.target, "pending")}
            /\ Finish(h, Response(201, "interest_sent", FALSE))
    /\ UNCHANGED <<likes, matches, passes, blocks, chat>>

\* ----------------------------------------- RespondToInterestView.post
\* interest = InterestRequest.objects.get(id=interest_id,
\*                to_profile=request.user.profile, status='pending')
\* The request names the InterestRequest row (f -> t) by its id; action is
\* "accept" or "decline".  InterestRequest.DoesNotExist: 404.
RespondBegin(u, f, t, a) ==
    LET g == [NoHandler EXCEPT !.kind = "respond", !.user = u,
                  !.interest = <<f, t>>, !.action = a,
                  !.self_from = f, !.self_to = t,
                  !.pc = IF a = "accept" THEN "accept_save" ELSE "decline_save"]
    IN /\ InterestsOf(interests, f, t) # {}
       /\ Arrive
       /\ IF t = u /\ InterestRow(f, t, "pending") \in interests
          THEN Proceed(g)
          ELSE Return(g, Response(404, "interest_not_found", FALSE))
       /\ UNCHANGED <<likes, matches, passes, blocks, interests, chat>>

\* self.status = st; self.responded_at = timezone.now(); self.save():
\* UPDATE of the row with the instance's primary key
SaveInterest(S, f, t, st) ==
    (S \ InterestsOf(S, f, t)) \cup
        {[InterestRow(f, t, st) EXCEPT !.responded_at = Now]}

\* InterestRequest.accept: self.status = 'accepted'; self.save()
AcceptSave(h) ==
    /\ h.pc = "accept_save"
    /\ interests' = SaveInterest(interests, h.self_from, h.self_to, "accepted")
    /\ Goto(h, [h EXCEPT !.pc = "goc_get", !.ctx = "accept1"])
    /\ UNCHANGED <<likes, matches, passes, blocks, chat>>

\* InterestRequest.decline: self.status = 'declined'; self.save(); 200
DeclineSave(h) ==
    /\ h.pc = "decline_save"
    /\ interests' = SaveInterest(interests, h.self_from, h.self_to, "declined")
    /\ Finish(h, Response(200, "declined", FALSE))
    /\ UNCHANGED <<likes, matches, passes, blocks, chat>>

\* After the first Like.objects.get_or_create of accept comes the second, for
\* the reverse pair; after the second the view returns 200.  Handler h leaves
\* the get_or_create as g.
AfterGoc(h, g) ==
    IF g.ctx = "accept1"
    THEN Goto(h, [g EXCEPT !.pc = "goc_get",
                           !.self_from = g.self_to,
                           !.self_to = g.self_from,
                           !.ctx = "accept2"])
    ELSE /\ handlers' = Others(h)
         /\ returned' = [g EXCEPT !.pc = "done",
                                  !.resp = Response(200, "accepted", FALSE)]
         /\ UNCHANGED <<started, overlap, registry>>

\* Like.objects.get_or_create(from_profile=..., to_profile=...): the get
GocGet(h) ==
    /\ h.pc = "goc_get"
    /\ IF LikesOf(VisLikes(h), h.self_from, h.self_to) # {}
       THEN AfterGoc(h, h)
       ELSE Goto(h, [h EXCEPT !.pc = "goc_create"])
    /\ UNCHANGED <<likes, matches, passes, blocks, interests, chat>>

\* get_or_create: with transaction.atomic(): self.create(**params), which
\* runs Like.save inside the atomic block.  IntegrityError from the unique
\* constraint is caught by get_or_create, which then returns
\* self.get(**kwargs); accept does not use the result.
GocCreate(h) ==
    /\ h.pc = "goc_create"
    /\ ~LikeUniqueViolated(OtherTxLikes(h), h.self_from, h.self_to)
    /\ IF LikeUniqueViolated(likes, h.self_from, h.self_to)
       THEN AfterGoc(h, [h EXCEPT !.conflict = TRUE])
       ELSE Goto(h, [h EXCEPT !.pc = "save_mutual",
                        !.txLikes = @ \cup
                            {LikeRow(h.self_from, h.self_to, "like",
                                Cardinality(LikesOf(AllLikes, h.self_from,
                                                    h.self_to)) + 1)}])
    /\ UNCHANGED <<likes, matches, passes, blocks, interests, chat>>

\* The atomic block of get_or_create exits: its rows become visible.
GocCommit(h) ==
    /\ h.pc = "goc_commit"
    /\ likes' = likes \cup h.txLikes
    /\ matches' = matches \cup h.txMatches
    /\ AfterGoc(h, [h EXCEPT !.txLikes = {}, !.txMatches = {}])
    /\ UNCHANGED <<passes, blocks, interests, chat>>

\* ------------------------------------------------- VerifyPaymentView.post
\* The payment signature is valid: subscription.activate() sets
\* user.is_premium = True and saves it; 200.
VerifyPayment(u) ==
    LET g == [NoHandler EXCEPT !.kind = "verifyPayment", !.user = u]
    IN /\ Arrive
       /\ premium' = premium \cup {u}
       /\ Return(g, Response(200, "payment_verified", FALSE))
       /\ UNCHANGED <<likes, matches, passes, blocks, interests,
                      chatRequests, conversations, messages>>

\* ------------------------------------------------------------ chat rows
\* settings.DEBUG of the deployed service
DEBUG == FALSE

\* Conversation.objects.filter(match=m)
ConversationsOf(S, mk) == {c \in S : c.match = mk}

\* ChatRequest.objects.filter(from_profile=f, to_profile=t, status='pending')
PendingChatRequests(S, f, t) ==
    {r \in S : r.from_profile = f /\ r.to_profile = t /\ r.status = "pending"}

\* Match.get_other_profile
GetOtherProfile(m, p) == IF m.profile1 = p THEN m.profile2 ELSE m.profile1

\* Variant: the views let every caller through.
MayChat_Open(m, u) == TRUE

\* The views go on unless
\*   not settings.DEBUG and not match.chat_unlocked
\*   and not request.user.is_premium
MayChat(m, u) == DEBUG \/ m.chat_unlocked \/ u \in premium

\* Conversation.objects.get_or_create(match=..., defaults=...) is done: accept
\* returns to RespondChatRequestView.post, which returns 200 with the
\* conversation; GetOrCreateConversationView.post returns 200.
AfterConv(h) ==
    Finish(h, Response(200, IF h.ctx = "chat_accept" THEN "chat_accepted"
                            ELSE "conversation", FALSE))

\* get_or_create: the get
ConvGet(h) ==
    /\ h.pc = "conv_get"
    /\ IF ConversationsOf(conversations, MatchPk(h.match)) # {}
       THEN AfterConv(h)
       ELSE Goto(h, [h EXCEPT !.pc = "conv_create"])
    /\ UNCHANGED <<likes, matches, passes, blocks, interests, chat>>

\* get_or_create: the create.  The OneToOneField makes match unique; on
\* IntegrityError get_or_create returns the stored row.
ConvCreate(h) ==
    /\ h.pc = "conv_create"
    /\ conversations' =
          IF ConversationsOf(conversations, MatchPk(h.match)) # {}
          THEN conversations
          ELSE conversations \cup {ConversationRow(MatchPk(h.match))}
    /\ AfterConv(h)
    /\ UNCHANGED <<likes, matches, passes, blocks, interests,
                   chatRequests, messages, premium>>

\* -------------------------------------- GetOrCreateConversationView.post
\* match = Match.objects.get(Q(profile1=profile) | Q(profile2=profile),
\*                           id=match_id, status='active'); else 404.
\* 403 unless chat is unlocked or the caller is premium.
OpenConversation(u, m) ==
    LET g == [NoHandler EXCEPT !.kind = "openConversation", !.user = u,
                  !.match = m, !.ctx = "open", !.pc = "conv_get"]
    IN /\ m \in matches
       /\ Arrive
       /\ IF ~(IsParticipant(m, u) /\ m.status = "active")
          THEN Return(g, Response(404, "match_not_found", FALSE))
          ELSE IF ~MayChat(m, u)
          THEN Return(g, Response(403, "chat_locked", FALSE))
          ELSE Proceed(g)
       /\ UNCHANGED <<likes, matches, passes, blocks, interests, chat>>

\* ------------------------------------------------- SendMessageView.post
\* conversation = Conversation.objects.get(Q(participant1=profile) |
\*     Q(participant2=profile), id=conversation_id, is_active=True); else 404.
\* conversation.match loads the Match row; 403 unless chat is unlocked or the
\* sender is premium.
SendMessageBegin(u, c) ==
    LET g == [NoHandler EXCEPT !.kind = "sendMessage", !.user = u,
                  !.conversation = c, !.pc = "msg_create"]
    IN /\ c \in conversations
       /\ Arrive
       /\ IF ~((c.participant1 = u \/ c.participant2 = u) /\ c.is_active)
          THEN Return(g, Response(404, "conversation_not_found", FALSE))
          ELSE \E m \in matches :
                  /\ MatchPk(m) = c.match
                  /\ IF ~MayChat(m, u)
                     THEN Return([g EXCEPT !.match = m],
                                 Response(403, "chat_locked", FALSE))
                     ELSE Proceed([g EXCEPT !.match = m])
       /\ UNCHANGED <<likes, matches, passes, blocks, interests, chat>>

\* Message.objects.create(...): Message.save inserts the row, then writes
\* last_message, last_message_at and last_message_by of the conversation
\* (save(update_fields=[...]): UPDATE of the named columns of the row with
\* the instance's primary key).
MessageCreate(h) ==
    /\ h.pc = "msg_create"
    /\ LET mk == h.conversation.match
           SetLast(c) == [c EXCEPT !.last_message_by = h.user]
       IN /\ messages' = messages \cup
                 {MessageRow(mk, h.user, Cardinality(messages) + 1)}
          /\ conversations' =
                {IF c.match = mk THEN SetLast(c) ELSE c : c \in conversations}
          /\ Goto(h, [h EXCEPT !.pc = "msg_unread",
                               !.conversation = SetLast(h.conversation)])
    /\ UNCHANGED <<likes, matches, passes, blocks, interests,
                   chatRequests, premium>>

\* Message.save: other = conversation.get_other_participant(sender);
\* conversation.increment_unread(other) adds one to the loaded instance's
\* counter and saves both counters; 201.
MessageUnread(h) ==
    /\ h.pc = "msg_unread"
    /\ LET c == h.conversation
           other == IF c.participant1 = h.user THEN c.participant2
                    ELSE c.participant1
           p1 == IF c.participant1 = other THEN c.unread_count_p1 + 1
                 ELSE c.unread_count_p1
           p2 == IF c.participant1 = other THEN c.unread_count_p2
                 ELSE c.unread_count_p2 + 1
           SetUnread(x) == [x EXCEPT !.unread_count_p1 = p1,
                                     !.unread_count_p2 = p2]
       IN /\ conversations' =
                {IF x.match = c.match THEN SetUnread(x) ELSE x :
                    x \in conversations}
          /\ Finish(h, Response(201, "message_sent", FALSE))
    /\ UNCHANGED <<likes, matches, passes, blocks, interests,
                   chatRequests, messages, premium>>

\* --------------------------------------------------- MarkAsReadView.post
\* conversation = Conversation.objects.get(Q(participant1=profile) |
\*     Q(participant2=profile), id=conversation_id); else 404.
MarkAsReadBegin(u, c) ==
    LET g == [NoHandler EXCEPT !.kind = "markAsRead", !.user = u,
                  !.conversation = c, !.pc = "read_save"]
    IN /\ c \in conversations
       /\ Arrive
       /\ IF c.participant1 = u \/ c.participant2 = u
          THEN Proceed(g)
          ELSE Return(g, Response(404, "conversation_not_found", FALSE))
       /\ UNCHANGED <<likes, matches, passes, blocks, interests, chat>>

\* Conversation.mark_as_read: the caller's counter of the loaded instance is
\* set to 0 and both counters are saved.
MarkAsReadSave(h) ==
    /\ h.pc = "read_save"
    /\ LET c == h.conversation
           p1 == IF c.participant1 = h.user THEN 0 ELSE c.unread_count_p1
           p2 == IF c.participant1 = h.user THEN c.unread_count_p2 ELSE 0
           SetUnread(x) == [x EXCEPT !.unread_count_p1 = p1,
                                     !.unread_count_p2 = p2]
       IN /\ conversations' =
                {IF x.match = c.match THEN SetUnread(x) ELSE x :
                    x \in conversations}
          /\ Goto(h, [h EXCEPT !.pc = "read_update",
                               !.conversation = SetUnread(c)])
    /\ UNCHANGED <<likes, matches, passes, blocks, interests,
                   chatRequests, messages, premium>>

\* Conversation.mark_as_read: Message.objects.filter(conversation=self,
\* is_read=False).exclude(sender=by_profile).update(is_read=True); 200.
MarkMessagesRead(h) ==
    /\ h.pc = "read_update"
    /\ messages' =
          {IF m.conversation = h.conversation.match /\ m.sender # h.user
           THEN [m EXCEPT !.is_read = TRUE] ELSE m : m \in messages}
    /\ Finish(h, Response(200, "marked_read", FALSE))
    /\ UNCHANGED <<likes, matches, passes, blocks, interests,
                   chatRequests, conversations, premium>>

\* ----------------------------------------------- SendChatRequestView.post
\* match = Match.objects.get(Q(profile1=profile) | Q(profile2=profile),
\*                           id=match_id, status='active'); else 404.
\* 200 if the chat is already unlocked; 400 if a pending ChatRequest from the
\* caller to the other profile exists.
SendChatRequestBegin(u, m) ==
    LET t == GetOtherProfile(m, u)
        g == [NoHandler EXCEPT !.kind = "sendChatRequest", !.user = u,
                  !.target = t, !.match = m, !.pc = "chat_request_create"]
    IN /\ m \in matches
       /\ Arrive
       /\ IF ~(IsParticipant(m, u) /\ m.status = "active")
          THEN Return(g, Response(404, "match_not_found", FALSE))
          ELSE IF m.chat_unlocked
          THEN Return(g, Response(200, "already_unlocked", FALSE))
          ELSE IF PendingChatRequests(chatRequests, u, t) # {}
          THEN Return(g, Response(400, "chat_request_already_sent", FALSE))
          ELSE Proceed(g)
       /\ UNCHANGED <<likes, matches, passes, blocks, interests, chat>>

\* ChatRequest.objects.create(from_profile=profile, to_profile=to_profile,
\*                            match=match, ...); 201
ChatRequestCreate(h) ==
    /\ h.pc = "chat_request_create"
    /\ chatRequests' = chatRequests \cup
          {ChatRequestRow(h.user, h.target, MatchPk(h.match), "pending",
                          Cardinality(chatRequests) + 1)}
    /\ Finish(h, Response(201, "chat_request_sent", FALSE))
    /\ UNCHANGED <<likes, matches, passes, blocks, interests,
                   conversations, messages, premium>>

\* --------------------------------------------- RespondChatRequestView.post
\* Variant: the lookup leaves out to_profile=request.user.profile.
RespondChatBegin_Anyone(u, r, a) ==
    LET g == [NoHandler EXCEPT !.kind = "respondChat", !.user = u,
                  !.chat_request = r, !.action = a, !.ctx = "chat_accept",
                  !.pc = IF a = "accept" THEN "chat_accept_save"
                         ELSE "chat_decline_save"]
    IN /\ r \in chatRequests
       /\ Arrive
       /\ IF r.status = "pending"
          THEN Proceed(g)
          ELSE Return(g, Response(404, "chat_request_not_found", FALSE))
       /\ UNCHANGED <<likes, matches, passes, blocks, interests, chat>>

\* chat_request = ChatRequest.objects.get(id=request_id,
\*     to_profile=request.user.profile, status='pending'); else 404.
\* The request names the ChatRequest row r by its id; action is "accept" or
\* "decline".
RespondChatBegin(u, r, a) ==
    LET g == [NoHandler EXCEPT !.kind = "respondChat", !.user = u,
                  !.chat_request = r, !.action = a, !.ctx = "chat_accept",
                  !.pc = IF a = "accept" THEN "chat_accept_save"
                         ELSE "chat_decline_save"]
    IN /\ r \in chatRequests
       /\ Arrive
       /\ IF r.to_profile = u /\ r.status = "pending"
          THEN Proceed(g)
          ELSE Return(g, Response(404, "chat_request_not_found", FALSE))
       /\ UNCHANGED <<likes, matches, passes, blocks, interests, chat>>

\* self.status = st; self.responded_at = timezone.now(); self.save()
SaveChatRequest(S, r, st) ==
    {IF x.id = r.id
     THEN [r EXCEPT !.status = st, !.responded_at = Now]
     ELSE x : x \in S}

\* ChatRequest.accept: the request is saved as accepted
ChatAcceptSave(h) ==
    /\ h.pc = "chat_accept_save"
    /\ chatRequests' = SaveChatRequest(chatRequests, h.chat_request, "accepted")
    /\ Goto(h, [h EXCEPT !.pc = "unlock_save"])
    /\ UNCHANGED <<likes, matches, passes, blocks, interests,
                   conversations, messages, premium>>

\* self.match.chat_unlocked = True; self.match.chat_unlocked_at = now;
\* self.match.save(update_fields=['chat_unlocked', 'chat_unlocked_at']):
\* UPDATE of the two columns of the row with the Match's primary key.
UnlockMatch(S, mk) ==
    {IF MatchPk(m) = mk
     THEN [m EXCEPT !.chat_unlocked = TRUE, !.chat_unlocked_at = Now]
     ELSE m : m \in S}

\* ChatRequest.accept: unlock chat on the match, which self.match loads
UnlockSave(h) ==
    /\ h.pc = "unlock_save"
    /\ matches' = UnlockMatch(matches, h.chat_request.match)
    /\ \E m \in matches' :
          /\ MatchPk(m) = h.chat_request.match
          /\ Goto(h, [h EXCEPT !.pc = "conv_get", !.match = m])
    /\ UNCHANGED <<likes, passes, blocks, interests, chat>>

\* ChatRequest.decline: the request is saved as declined; 200
ChatDeclineSave(h) ==
    /\ h.pc = "chat_decline_save"
    /\ chatRequests' = SaveChatRequest(chatRequests, h.chat_request, "declined")
    /\ Finish(h, Response(200, "chat_declined", FALSE))
    /\ UNCHANGED <<likes, matches, passes, blocks, interests,
                   conversations, messages, premium>>

\* ------------------------------------------------- MatchingAlgorithm
\* Weight factors for different criteria.
WEIGHTS ==
    [age |-> 15, height |-> 10, religion |-> 20, caste |-> 10,
     education |-> 10, income |-> 10, location |-> 10, diet |-> 5,
     marital_status |-> 10]

\* The criteria calculate_compatibility scores, in the order it scores them.
Dimensions ==
    <<"age", "height", "religion", "caste", "education", "location", "diet",
      "marital_status">>

\* str.lower() on the words of the modelled vocabulary.
Lower(s) ==
    CASE s = "Brahmin" -> "brahmin"
      [] s = "Rajput" -> "rajput"
      [] s = "Pune" -> "pune"
      [] s = "Delhi" -> "delhi"
      [] s = "Maharashtra" -> "maharashtra"
      [] s = "Punjab" -> "punjab"
      [] s = "India" -> "india"
      [] s = "Nepal" -> "nepal"
      [] OTHER -> s

\* [c.lower() for c in words]
LowerAll(words) == {Lower(c) : c \in words}

\* calculate_age: the age increments at the birthday.
calculate_age(dob) ==
    today.year - dob.year -
        (IF \/ today.month < dob.month
            \/ today.month = dob.month /\ today.day < dob.day
         THEN 1 ELSE 0)

\* Variant: a distance of 3 still counts as close.
check_age_Wide(pref, target) ==
    LET target_age == calculate_age(target.date_of_birth)
        diff == IF target_age < pref.age_from
                THEN pref.age_from - target_age
                ELSE target_age - pref.age_to
    IN IF pref.age_from <= target_age /\ target_age <= pref.age_to THEN 100
       ELSE IF diff <= 3 THEN 70
       ELSE IF diff <= 5 THEN 40
       ELSE 0

\* _check_age
check_age(pref, target) ==
    LET target_age == calculate_age(target.date_of_birth)
        diff == IF target_age < pref.age_from
                THEN pref.age_from - target_age
                ELSE target_age - pref.age_to
    IN IF pref.age_from <= target_age /\ target_age <= pref.age_to THEN 100
       ELSE IF diff <= 2 THEN 70
       ELSE IF diff <= 5 THEN 40
       ELSE 0

\* _check_height
check_height(pref, target) ==
    LET diff == IF target.height_cm < pref.height_from
                THEN pref.height_from - target.height_cm
                ELSE target.height_cm - pref.height_to
    IN IF pref.height_from = 0 \/ pref.height_to = 0 THEN 100
       ELSE IF /\ pref.height_from <= target.height_cm
               /\ target.height_cm <= pref.height_to THEN 100
       ELSE IF diff <= 5 THEN 70
       ELSE IF diff <= 10 THEN 40
       ELSE 0

\* _check_religion
check_religion(pref, target) ==
    IF pref.religion = {} THEN 100
    ELSE IF target.religion \in pref.religion THEN 100
    ELSE 0

\* Variant: the caste is compared letter for letter.
check_caste_Exact(pref, target) ==
    IF pref.caste_no_bar THEN 100
    ELSE IF pref.caste = {} THEN 100
    ELSE IF target.caste \in pref.caste THEN 100
    ELSE 50

\* _check_caste
check_caste(pref, target) ==
    IF pref.caste_no_bar THEN 100
    ELSE IF pref.caste = {} THEN 100
    ELSE IF Lower(target.caste) \in LowerAll(pref.caste) THEN 100
    ELSE 50

\* _check_education
check_education(pref, target) ==
    IF pref.education = {} THEN 100
    ELSE IF target.education \in pref.education THEN 100
    ELSE 30

\* Variant: a matching state counts as much as a matching city.
check_location_Generous(pref, target) ==
    (IF pref.city # {} /\ Lower(target.city) \in LowerAll(pref.city) THEN 50
     ELSE IF pref.city = {} THEN 25 ELSE 0)
    + (IF pref.state # {} /\ Lower(target.state) \in LowerAll(pref.state)
       THEN 50
       ELSE IF pref.state = {} THEN 15 ELSE 0)
    + (IF pref.country # {}
       THEN (IF Lower(target.country) \in LowerAll(pref.country)
             THEN 20 ELSE 0)
       ELSE 10)

\* _check_location: city, state and country add up.
check_location(pref, target) ==
    (IF pref.city # {} /\ Lower(target.city) \in LowerAll(pref.city) THEN 50
     ELSE IF pref.city = {} THEN 25 ELSE 0)
    + (IF pref.state # {} /\ Lower(target.state) \in LowerAll(pref.state)
       THEN 30
       ELSE IF pref.state = {} THEN 15 ELSE 0)
    + (IF pref.country # {}
       THEN (IF Lower(target.country) \in LowerAll(pref.country)
             THEN 20 ELSE 0)
       ELSE 10)

\* _check_diet
check_diet(pref, target) ==
    IF pref.diet = {} THEN 100
    ELSE IF target.diet \in pref.diet THEN 100
    ELSE 30

\* _check_marital_status
check_marital_status(pref, target) ==
    IF pref.marital_status = {} THEN 100
    ELSE IF target.marital_status \in pref.marital_status THEN 100
    ELSE 0

\* breakdown: the score of every criterion.
Breakdown(pref, target) ==
    [age |-> check_age(pref, target),
     height |-> check_height(pref, target),
     religion |-> check_religion(pref, target),
     caste |-> check_caste(pref, target),
     education |-> check_education(pref, target),
     location |-> check_location(pref, target),
     diet |-> check_diet(pref, target),
     marital_status |-> check_marital_status(pref, target)]

\* The sum of f[d] over the names d of the sequence ds.
RECURSIVE SumOver(_, _)
SumOver(f, ds) == IF ds = <<>> THEN 0 ELSE f[Head(ds)] + SumOver(f, Tail(ds))

\* score, in hundredths: the sum of dimension score * weight.  The source
\* adds dimension_score * weight / 100 in binary floating point; for every
\* combination of values the checks return, the rounded total and the
\* comparison with 60 that it computes are those of exact arithmetic, which
\* is what the model computes.
WeightedScore(breakdown) ==
    SumOver([d \in DOMAIN breakdown |-> breakdown[d] * WEIGHTS[d]], Dimensions)

\* total_weight = sum(self.WEIGHTS.values())
total_weight ==
    SumOver(WEIGHTS,
            <<"age", "height", "religion", "caste", "education", "income",
              "location", "diet", "marital_status">>)

\* round(s / w * 100, 1) in tenths, s in hundredths: the nearest tenth, the
\* even one of two equally near.
RoundTenths(s, w) ==
    LET q == (10 * s) \div w
        r == (10 * s) % w
    IN IF 2 * r < w THEN q
       ELSE IF 2 * r > w THEN q + 1
       ELSE IF q % 2 = 0 THEN q ELSE q + 1

\* The body of a score: total_score in tenths of a percent.
ScoreResult(total, breakdown, im) ==
    [total_score |-> total, breakdown |-> breakdown, is_match |-> im]

\* Variant: the base score counts as a good match.
BaseScore_Match == ScoreResult(500, <<>>, TRUE)

\* No preferences set, return base score.
BaseScore == ScoreResult(500, <<>>, FALSE)

\* profile.partner_preferences
PartnerPreferences(u) == {r \in preferences : r.profile = u}

\* Variant: a good match needs more than 60.
calculate_compatibility_Above(u, target) ==
    IF PartnerPreferences(u) = {} THEN BaseScore
    ELSE LET pref == CHOOSE r \in PartnerPreferences(u) : TRUE
             breakdown == Breakdown(pref, target)
             score == WeightedScore(breakdown)
         IN ScoreResult(RoundTenths(score, total_weight), breakdown,
                        score > 60 * total_weight)

\* calculate_compatibility(profile, target)
calculate_compatibility(u, target) ==
    IF PartnerPreferences(u) = {} THEN BaseScore
    ELSE LET pref == CHOOSE r \in PartnerPreferences(u) : TRUE
             breakdown == Breakdown(pref, target)
             score == WeightedScore(breakdown)
         IN ScoreResult(RoundTenths(score, total_weight), breakdown,
                        score >= 60 * total_weight)

\* CompatibilityScoreView.get: 200 with the score of the target profile.
\* The invocation is its inputs and the body of its response (result).
CompatibilityScore(u, t) ==
    /\ Arrive
    /\ Return([kind |-> "compatibility", user |-> u, target |-> t,
               pc |-> "score", resp |-> NoResp,
               result |-> calculate_compatibility(u, profileRows[t])],
              Response(200, "scored", FALSE))
    /\ UNCHANGED <<likes, matches, passes, blocks, interests, chat>>

\* ------------------------------- MatchingAlgorithm.get_recommended_profiles
\* Variant: the profiles that have blocked the requester are not excluded.
all_excluded_OneWay(u, exclude_ids) ==
    exclude_ids
        \cup {x.to_profile : x \in {y \in likes : y.from_profile = u}}
        \cup {x.to_profile : x \in {y \in passes : y.from_profile = u}}
        \cup {x.blocked : x \in {y \in blocks : y.blocker = u}}
        \cup {u}

\* Combine all exclusions: exclude_ids, the to_profile_id of the Likes and
\* of the Passes from the profile, the blocked_id of its BlockedProfile rows,
\* the blocker_id of the rows that block it, and the profile's own id.
all_excluded(u, exclude_ids) ==
    exclude_ids
        \cup {x.to_profile : x \in {y \in likes : y.from_profile = u}}
        \cup {x.to_profile : x \in {y \in passes : y.from_profile = u}}
        \cup {x.blocked : x \in {y \in blocks : y.blocker = u}}
        \cup {x.blocker : x \in {y \in blocks : y.blocked = u}}
        \cup {u}

\* Filter by opposite gender.
OppositeGender(g) == IF g = "M" THEN "F" ELSE "M"

\* The candidate queryset: profiles of active, approved, not banned users
\* outside the exclusions, of the opposite gender.
Candidates(u, exclude_ids) ==
    {p \in DOMAIN profileRows :
        /\ profileRows[p].is_active
        /\ profileRows[p].is_profile_approved
        /\ ~profileRows[p].is_banned
        /\ p \notin all_excluded(u, exclude_ids)
        /\ profileRows[p].gender = OppositeGender(profileRows[u].gender)}

\* Variant: the queryset has no ordering, and the database returns the rows
\* oldest first or newest first from one request to the next.
NewestFirst_Unordered ==
    LET n == Cardinality(DOMAIN profileRows)
    IN [i \in 1..n |->
           CHOOSE p \in DOMAIN profileRows :
               profileRows[p].created_at =
                   IF started % 2 = 0 THEN i ELSE n + 1 - i]

\* Every stored profile, newest first: created_at is the rank of the
\* registration instant among the stored rows.
NewestFirst ==
    LET n == Cardinality(DOMAIN profileRows)
    IN [i \in 1..n |->
           CHOOSE p \in DOMAIN profileRows :
               profileRows[p].created_at = n + 1 - i]

\* Profile.Meta.ordering = ['-created_at']: the order a Profile queryset is
\* iterated in.
OrderByCreatedAt(S) == SelectSeq(NewestFirst, LAMBDA p : p \in S)

\* for candidate in candidates[:100]
PoolCap == 100

\* Variant: the whole pool is scored.
Truncate_All(pool) == pool

\* candidates[:100]: limit initial pool
Truncate(pool) ==
    SubSeq(pool, 1, IF Len(pool) < PoolCap THEN Len(pool) ELSE PoolCap)

\* One entry of scored_profiles.
ScoredProfile(u, p) ==
    LET compatibility == calculate_compatibility(u, profileRows[p])
    IN [profile |-> p, score |-> compatibility.total_score,
        breakdown |-> compatibility.breakdown,
        is_match |-> compatibility.is_match]

\* The entries of scored whose score is in S, highest score first, entries
\* of equal score in the order they have in scored.
RECURSIVE ByScore(_, _)
ByScore(scored, S) ==
    IF S = {} THEN <<>>
    ELSE LET top == CHOOSE s \in S : \A x \in S : x <= s
         IN SelectSeq(scored, LAMBDA e : e.score = top)
                \o ByScore(scored, S \ {top})

\* scored_profiles.sort(key=lambda x: x['score'], reverse=True): the sort is
\* stable, also in reverse.
SortByScore(scored) ==
    ByScore(scored, {scored[i].score : i \in 1..Len(scored)})

\* scored_profiles[:limit], limit >= 0
UpTo(scored, limit) ==
    SubSeq(scored, 1, IF Len(scored) < limit THEN Len(scored) ELSE limit)

\* get_recommended_profiles(profile, limit, exclude_ids)
get_recommended_profiles(u, limit, exclude_ids) ==
    LET candidates == Candidates(u, exclude_ids)
        pool == Truncate(OrderByCreatedAt(candidates))
    IN UpTo(SortByScore([i \in 1..Len(pool) |-> ScoredProfile(u, pool[i])]),
            limit)

\* No earlier call.
NoPrior == [called_on |-> Date(0, 0, 0), result |-> <<>>]

\* What a call keeps of the call g that returned just before it with the
\* same inputs, if there is one: its date and its result.
Prior(g, u, limit, exclude_ids) ==
    IF /\ g.kind = "recommend"
       /\ g.user = u
       /\ g.limit = limit
       /\ g.exclude_ids = exclude_ids
    THEN [called_on |-> g.called_on, result |-> g.result]
    ELSE NoPrior

\* A call of get_recommended_profiles, as RecommendedProfilesView.get makes
\* it with limit 20 and no exclude_ids.  The call only reads; its queries
\* are evaluated in one step, so that a write of another request falls
\* before or after all of them.  The invocation is its inputs, the body of
\* its response (result) and two history fields: the date it ran on and the
\* call that returned just before it.
RecommendedProfiles(u, limit, exclude_ids) ==
    /\ Arrive
    /\ Return([kind |-> "recommend", user |-> u, limit |-> limit,
               exclude_ids |-> exclude_ids, pc |-> "rank", resp |-> NoResp,
               called_on |-> today,
               prior |-> Prior(returned, u, limit, exclude_ids),
               result |-> get_recommended_profiles(u, limit, exclude_ids)],
              Response(200, "recommended", FALSE))
    /\ UNCHANGED <<likes, matches, passes, blocks, interests, chat>>

\* ------------------------------------------------------------ the clock
\* The day after d.
Tomorrow(d) ==
    LET leap == d.year % 4 = 0 /\ (d.year % 100 # 0 \/ d.year % 400 = 0)
        days == IF d.month = 2 THEN (IF leap THEN 29 ELSE 28)
                ELSE IF d.month \in {4, 6, 9, 11} THEN 30 ELSE 31
    IN IF d.day < days THEN Date(d.year, d.month, d.day + 1)
       ELSE IF d.month < 12 THEN Date(d.year, d.month + 1, 1)
       ELSE Date(d.year + 1, 1, 1)

\* The n days from d on.
RECURSIVE DaysFrom(_, _)
DaysFrom(d, n) == IF n = 0 THEN {} ELSE {d} \cup DaysFrom(Tomorrow(d), n - 1)

\* Midnight passes: date.today() reads the next day.  Nothing stored changes
\* and no request is touched; the service is observed for MaxDays days after
\* Today.
Midnight ==
    /\ today \in DaysFrom(Today, MaxDays)
    /\ today' = Tomorrow(today)
    /\ UNCHANGED <<likes, matches, passes, blocks, interests, chat,
                   profileRows, preferences, handlers, returned, started,
                   overlap>>

\* ------------------------------------------------------ specifications
SendLikeStep ==
    \/ \E u \in Profiles, t \in Profiles : SendLikeBegin(u, t)
    \/ \E h \in BagToSet(handlers), ty \in LikeTypes : LikeCreate(h, ty)
    \/ \E h \in BagToSet(handlers) : SaveMutual(h)
    \/ \E h \in BagToSet(handlers) : MatchCreate(h)
    \/ \E h \in BagToSet(handlers) : LikeIsMatch(h)

\* The like handler.
NextLike == SendLikeStep

SpecLike == Init /\ [][NextLike]_vars

EdgeStep ==
    \/ \E u \in Profiles, t \in Profiles : SendPass(u, t)
    \/ \E h \in BagToSet(handlers) : PassCreate(h)
    \/ \E u \in Profiles, t \in Profiles : BlockProfile(u, t)
    \/ \E h \in BagToSet(handlers) : BlockCreate(h)
    \/ \E u \in Profiles, t \in Profiles : UnblockProfile(u, t)

UnmatchStep ==
    \/ \E u \in Profiles, m \in matches : UnmatchBegin(u, m)
    \/ \E h \in BagToSet(handlers) : UnmatchSave(h)

ChatRequestStep ==
    \/ \E u \in Profiles, m \in matches : SendChatRequestBegin(u, m)
    \/ \E h \in BagToSet(handlers) : ChatRequestCreate(h)
    \/ \E u \in Profiles, r \in chatRequests, a \in {"accept", "decline"} :
          RespondChatBegin(u, r, a)
    \/ \E h \in BagToSet(handlers) : ChatAcceptSave(h)
    \/ \E h \in BagToSet(handlers) : UnlockSave(h)
    \/ \E h \in BagToSet(handlers) : ChatDeclineSave(h)

MessageStep ==
    \/ \E u \in Profiles : VerifyPayment(u)
    \/ \E u \in Profiles, m \in matches : OpenConversation(u, m)
    \/ \E u \in Profiles, c \in conversations : SendMessageBegin(u, c)
    \/ \E h \in BagToSet(handlers) : MessageCreate(h)
    \/ \E h \in BagToSet(handlers) : MessageUnread(h)

ConversationStep ==
    \/ \E h \in BagToSet(handlers) : ConvGet(h)
    \/ \E h \in BagToSet(handlers) : ConvCreate(h)

InterestStep ==
    \/ \E u \in Profiles, t \in Profiles : SendInterestBegin(u, t)
    \/ \E h \in BagToSet(handlers) : InterestCreate(h)
    \/ \E u \in Profiles, f \in Profiles, t \in Profiles,
          a \in {"accept", "decline"} : RespondBegin(u, f, t, a)
    \/ \E h \in BagToSet(handlers) : AcceptSave(h)
    \/ \E h \in BagToSet(handlers) : DeclineSave(h)
    \/ \E h \in BagToSet(handlers) : GocGet(h)
    \/ \E h \in BagToSet(handlers) : GocCreate(h)
    \/ \E h \in BagToSet(handlers) : GocCommit(h)

\* The interest-request handlers alone; accept runs Like.save.
NextRespond ==
    \/ InterestStep
    \/ \E h \in BagToSet(handlers) : SaveMutual(h)
    \/ \E h \in BagToSet(handlers) : MatchCreate(h)

SpecRespond == Init /\ [][NextRespond]_vars

\* The like and interest-request handlers.
NextInterest == SendLikeStep \/ InterestStep

SpecInterest == Init /\ [][NextInterest]_vars

\* The pass and block handlers.
NextEdge == EdgeStep

SpecEdge == InitStored /\ [][NextEdge]_vars

\* The unmatch and chat-request handlers, some time into the service's life.
NextUnlock == UnmatchStep \/ ChatRequestStep \/ ConversationStep

SpecUnlock == InitStored /\ [][NextUnlock]_vars

\* The like and pass handlers.
NextInteract ==
    \/ SendLikeStep
    \/ \E u \in Profiles, t \in Profiles : SendPass(u, t)
    \/ \E h \in BagToSet(handlers) : PassCreate(h)

SpecInteract == Init /\ [][NextInteract]_vars

\* A Like is stored between u and t, in one direction or the other.
Acquainted(u, t) == LikesOf(likes, u, t) # {} \/ LikesOf(likes, t, u) # {}

\* The like, interest-request and unmatch handlers, some time into the
\* service's life, for requests between profiles that have a Like between
\* them.
NextRematch ==
    \/ \E u \in Profiles, t \in Profiles :
          Acquainted(u, t) /\ SendLikeBegin(u, t)
    \/ \E h \in BagToSet(handlers), ty \in LikeTypes : LikeCreate(h, ty)
    \/ \E h \in BagToSet(handlers) : SaveMutual(h)
    \/ \E h \in BagToSet(handlers) : MatchCreate(h)
    \/ \E h \in BagToSet(handlers) : LikeIsMatch(h)
    \/ \E u \in Profiles, t \in Profiles :
          Acquainted(u, t) /\ SendInterestBegin(u, t)
    \/ \E h \in BagToSet(handlers) : InterestCreate(h)
    \/ \E u \in Profiles, f \in Profiles, t \in Profiles,
          a \in {"accept", "decline"} : RespondBegin(u, f, t, a)
    \/ \E h \in BagToSet(handlers) : AcceptSave(h)
    \/ \E h \in BagToSet(handlers) : DeclineSave(h)
    \/ \E h \in BagToSet(handlers) : GocGet(h)
    \/ \E h \in BagToSet(handlers) : GocCreate(h)
    \/ \E h \in BagToSet(handlers) : GocCommit(h)
    \/ UnmatchStep

SpecRematch == InitStored /\ [][NextRematch]_vars

\* The interest-request and chat-request handlers, some time into the
\* service's life, for interest requests between profiles that have a Like
\* between them; any profile responds.
NextRequests ==
    \/ \E u \in Profiles, t \in Profiles :
          Acquainted(u, t) /\ SendInterestBegin(u, t)
    \/ \E h \in BagToSet(handlers) : InterestCreate(h)
    \/ \E u \in Profiles, f \in Profiles, t \in Profiles,
          a \in {"accept", "decline"} : RespondBegin(u, f, t, a)
    \/ \E h \in BagToSet(handlers) : AcceptSave(h)
    \/ \E h \in BagToSet(handlers) : DeclineSave(h)
    \/ \E h \in BagToSet(handlers) : GocGet(h)
    \/ \E h \in BagToSet(handlers) : GocCreate(h)
    \/ \E h \in BagToSet(handlers) : GocCommit(h)
    \/ \E h \in BagToSet(handlers) : SaveMutual(h)
    \/ \E h \in BagToSet(handlers) : MatchCreate(h)
    \/ ChatRequestStep
    \/ ConversationStep

SpecRequests == InitStored /\ [][NextRequests]_vars

\* The like handler, for requests between profiles that have a Like between
\* them, and the payment that makes a user premium.
NextPremium ==
    \/ \E u \in Profiles, t \in Profiles :
          Acquainted(u, t) /\ SendLikeBegin(u, t)
    \/ \E h \in BagToSet(handlers), ty \in LikeTypes : LikeCreate(h, ty)
    \/ \E h \in BagToSet(handlers) : SaveMutual(h)
    \/ \E h \in BagToSet(handlers) : MatchCreate(h)
    \/ \E h \in BagToSet(handlers) : LikeIsMatch(h)
    \/ \E u \in Profiles : VerifyPayment(u)

SpecPremium == InitStored /\ [][NextPremium]_vars

\* The chat handlers, with payment and unmatch.
NextChat == MessageStep \/ ChatRequestStep \/ ConversationStep \/ UnmatchStep

SpecChat == InitStored /\ [][NextChat]_vars

\* What profiles 1 and 2 have stored after they matched, profile 1 sent a
\* ChatRequest and profile 2 accepted it, which unlocked the chat and created
\* the Conversation; and after profile 1 then unmatched the Match.
InitConversation ==
    LET m == [MatchRow(1, 2, 1) EXCEPT !.chat_unlocked = TRUE,
                                       !.chat_unlocked_at = 1]
        r == [ChatRequestRow(1, 2, MatchPk(m), "accepted", 1)
                 EXCEPT !.responded_at = 1]
    IN /\ profileRows = [p \in Profiles |-> ProfileRow(p)]
       /\ preferences = {}
       /\ today = Today
       /\ likes = {LikeRow(1, 2, "like", 1), LikeRow(2, 1, "like", 1)}
       /\ matches \in
             {{m}, {[m EXCEPT !.status = "unmatched", !.unmatched_by = 1,
                             !.unmatched_at = 1]}}
       /\ passes = {}
       /\ blocks = {}
       /\ interests = {}
       /\ chatRequests = {r}
       /\ conversations = {ConversationRow(MatchPk(m))}
       /\ messages = {}
       /\ premium = {}
       /\ handlers = EmptyBag
       /\ returned = NoHandler
       /\ started = 0
       /\ overlap = FALSE

\* The message and mark-as-read handlers.
NextMessage ==
    \/ \E u \in Profiles, c \in conversations : SendMessageBegin(u, c)
    \/ \E h \in BagToSet(handlers) : MessageCreate(h)
    \/ \E h \in BagToSet(handlers) : MessageUnread(h)
    \/ \E u \in Profiles, c \in conversations : MarkAsReadBegin(u, c)
    \/ \E h \in BagToSet(handlers) : MarkAsReadSave(h)
    \/ \E h \in BagToSet(handlers) : MarkMessagesRead(h)

SpecMessage == InitConversation /\ [][NextMessage]_vars

\* ------------------------------------------------- inputs of the scorer
\* Dates of birth: aged 30, 37 (birthday tomorrow), 38 (birthday today) and
\* 41 on Today.
BirthDates ==
    {Date(1994, 1, 1), Date(1986, 6, 16), Date(1986, 6, 15),
     Date(1982, 12, 31)}

\* Height preference and height: no preference; inside the range; 11 cm
\* above it.
HeightCases ==
    {[from |-> 0, to |-> 0, cm |-> 165], [from |-> 160, to |-> 170, cm |-> 165],
     [from |-> 160, to |-> 170, cm |-> 181]}

\* Caste preference and caste: no bar; the same caste in another letter
\* case; another caste.
CasteCases ==
    {[no_bar |-> TRUE, castes |-> {"rajput"}, caste |-> "Brahmin"],
     [no_bar |-> FALSE, castes |-> {"brahmin"}, caste |-> "Brahmin"],
     [no_bar |-> FALSE, castes |-> {"brahmin"}, caste |-> "Rajput"]}

\* A place preference and a place: no preference; the same place in another
\* letter case; another place.
PlaceCases(here, there) ==
    {[wanted |-> {}, place |-> here], [wanted |-> {Lower(here)}, place |-> here],
     [wanted |-> {Lower(here)}, place |-> there]}

\* The stored rows: profile 1 holds a PartnerPreference row, profile 2 is
\* the candidate it is scored against; nothing else is stored.
InitScore ==
    \E dob \in BirthDates, h \in HeightCases, c \in CasteCases,
       religion \in {"hindu", "muslim"},
       education \in {"bachelors", "diploma"},
       diet \in {"vegetarian", "non_vegetarian"},
       marital_status \in {"never_married", "divorced"},
       city \in PlaceCases("Pune", "Delhi"),
       state \in PlaceCases("Maharashtra", "Punjab"),
       country \in PlaceCases("India", "Nepal") :
        InitRegistry(
            [p \in Profiles |->
                IF p = 2
                THEN [ProfileRow(p) EXCEPT
                        !.date_of_birth = dob, !.height_cm = h.cm,
                        !.caste = c.caste, !.religion = religion,
                        !.education = education, !.diet = diet,
                        !.marital_status = marital_status,
                        !.city = city.place, !.state = state.place,
                        !.country = country.place]
                ELSE ProfileRow(p)],
            {[PartnerPreferenceRow(1) EXCEPT
                !.height_from = h.from, !.height_to = h.to,
                !.caste_no_bar = c.no_bar, !.caste = c.castes,
                !.city = city.wanted, !.state = state.wanted,
                !.country = country.wanted]},
            {}, {})

\* The scorer alone.
NextScore == \E u \in Profiles, t \in Profiles : CompatibilityScore(u, t)

SpecScore == InitScore /\ [][NextScore]_vars

\* ------------------------------------------- inputs of the recommendations
\* The profiles that send requests are men, profile 1 with a
\* PartnerPreference row; n women registered after them: none, two, or two
\* more than the cap.  The women at the places of stars in the pool (none,
\* or some around the ends of the pool and the cap) were born on 1994-01-01
\* and meet every preference of profile 1; the others turn 38 the day after
\* Today.
InitRank ==
    \E n \in {0, 2, PoolCap + 2},
       stars \in {{}, {1}, {2}, {PoolCap}, {PoolCap + 1}, {1, PoolCap + 2}} :
        InitRegistry(
            [p \in 1..(NumProfiles + n) |->
                IF p \in Profiles THEN [ProfileRow(p) EXCEPT !.gender = "M"]
                ELSE [ProfileRow(p) EXCEPT
                        !.gender = "F",
                        !.date_of_birth =
                            IF NumProfiles + n + 1 - p \in stars
                            THEN Date(1994, 1, 1) ELSE Date(1986, 6, 16)]],
            {PartnerPreferenceRow(1)}, {}, {})

\* The recommendations alone, over the days; the view passes limit 20.
NextRank ==
    \/ \E u \in Profiles, limit \in {1, 20, PoolCap + 1} :
          RecommendedProfiles(u, limit, {})
    \/ Midnight

SpecRank == InitRank /\ [][NextRank]_vars

\* Profile 1 is a man with a PartnerPreference row, the other profiles that
\* send requests are women; registered after them are a woman whose user is
\* inactive, one whose profile is not approved, one who is banned, a man and
\* a woman.
InitRecommend ==
    InitRegistry(
        [p \in 1..(NumProfiles + 5) |->
            [ProfileRow(p) EXCEPT
                !.gender = IF p = 1 \/ p = NumProfiles + 4 THEN "M" ELSE "F",
                !.is_active = (p # NumProfiles + 1),
                !.is_profile_approved = (p # NumProfiles + 2),
                !.is_banned = (p = NumProfiles + 3)]],
        {PartnerPreferenceRow(1)}, {}, {})

\* Likes, passes, blocks, unblocks and recommendations, one request after
\* the other; exclude_ids holds nothing or one profile.
NextRecommend ==
    \/ \E u \in Profiles, t \in Profiles : Quiescent /\ SendLikeBegin(u, t)
    \/ \E h \in BagToSet(handlers) : LikeCreate(h, "like")
    \/ \E h \in BagToSet(handlers) : SaveMutual(h)
    \/ \E h \in BagToSet(handlers) : MatchCreate(h)
    \/ \E h \in BagToSet(handlers) : LikeIsMatch(h)
    \/ \E u \in Profiles, t \in Profiles : Quiescent /\ SendPass(u, t)
    \/ \E h \in BagToSet(handlers) : PassCreate(h)
    \/ \E u \in Profiles, t \in Profiles : Quiescent /\ BlockProfile(u, t)
    \/ \E h \in BagToSet(handlers) : BlockCreate(h)
    \/ \E u \in Profiles, t \in Profiles : Quiescent /\ UnblockProfile(u, t)
    \/ \E u \in Profiles, ex \in {{}} \cup {{p} : p \in Profiles} :
          Quiescent /\ RecommendedProfiles(u, 20, ex)

SpecRecommend == InitRecommend /\ [][NextRecommend]_vars

\* One criterion at a time, profile 1 scoring profile 2.  Either the age:
\* candidates born from 1948 to 2012, on 1 January or on the day after
\* Today's day of the year, against four age ranges; or the set-valued
\* criteria: for religion, education, diet and marital status an empty list,
\* a list holding the candidate's value and a list without it, and for caste
\* the no-bar flag with and without a list, an empty list, the candidate's
\* caste in another letter case, and another caste.
InitDimension ==
    \/ \E y \in 1948..2012, md \in {<<1, 1>>, <<6, 16>>},
          r \in {<<25, 35>>, <<18, 70>>, <<30, 30>>, <<21, 30>>} :
           InitRegistry(
               [p \in Profiles |->
                   IF p = 2
                   THEN [ProfileRow(p) EXCEPT
                           !.date_of_birth = Date(y, md[1], md[2])]
                   ELSE ProfileRow(p)],
               {[PartnerPreferenceRow(1) EXCEPT
                   !.age_from = r[1], !.age_to = r[2]]},
               {}, {})
    \/ \E religion \in {{}, {"hindu", "sikh"}, {"muslim"}},
          education \in {{}, {"bachelors", "masters"}, {"doctorate"}},
          diet \in {{}, {"vegetarian"}, {"vegan", "jain"}},
          marital_status \in {{}, {"never_married"}, {"divorced", "widowed"}},
          c \in {[no_bar |-> TRUE, castes |-> {"rajput"}, caste |-> "Brahmin"],
                 [no_bar |-> TRUE, castes |-> {}, caste |-> "Brahmin"],
                 [no_bar |-> FALSE, castes |-> {}, caste |-> "Brahmin"],
                 [no_bar |-> FALSE, castes |-> {"brahmin"}, caste |-> "Brahmin"],
                 [no_bar |-> FALSE, castes |-> {"Rajput", "Brahmin"},
                  caste |-> "brahmin"],
                 [no_bar |-> FALSE, castes |-> {"brahmin"}, caste |-> "Rajput"]} :
           InitRegistry(
               [p \in Profiles |->
                   IF p = 2 THEN [ProfileRow(p) EXCEPT !.caste = c.caste]
                   ELSE ProfileRow(p)],
               {[PartnerPreferenceRow(1) EXCEPT
                   !.religion = religion, !.education = education,
                   !.diet = diet, !.marital_status = marital_status,
                   !.caste_no_bar = c.no_bar, !.caste = c.castes]},
               {}, {})

\* The scorer alone, one criterion varied at a time.
SpecDimension == InitDimension /\ [][NextScore]_vars

\* Every handler.
Next ==
    \/ SendLikeStep
    \/ EdgeStep
    \/ InterestStep
    \/ UnmatchStep
    \/ ChatRequestStep
    \/ MessageStep
    \/ ConversationStep

Spec == Init /\ [][Next]_vars

\* ------------------------------------------------------------ properties
Liked(a, b) == LikesOf(likes, a, b) # {}

MutualLike(a, b) == Liked(a, b) /\ Liked(b, a)

\* The Match rows of the unordered pair {a,b}.
PairMatches(a, b) == {m \in matches : {m.profile1, m.profile2} = {a, b}}

NumMatches(a, b) == Cardinality(PairMatches(a, b))

\* A request of kind k has returned in the latest step.
Returned(k) == returned.kind = k

\* The handlers that may have arrived in this step.
Arrivals == IF started' = started THEN {} ELSE BagToSet(handlers') \cup {returned'}

\* A request of kind k arrives in this step and g is its handler: g has
\* returned at once, or has joined the handlers in progress.
Arrives(k, g) ==
    /\ g.kind = k
    /\ \/ returned' = g
       \/ handlers' = handlers (+) SetToBag({g})

AcceptedBetween(a, b) ==
    \E i \in InterestsOf(interests, a, b) \cup InterestsOf(interests, b, a) :
        i.status = "accepted"

\* C1: for distinct profiles a and b, under every interleaving of sendLike
\* calls, the pair {a,b} never has two Match rows, and has exactly one once
\* both Likes are stored and every call has returned.
C1_ExactlyOneMatch ==
    \A a \in Profiles, b \in Profiles :
        a # b =>
            /\ NumMatches(a, b) <= 1
            /\ (Quiescent /\ MutualLike(a, b)) => NumMatches(a, b) = 1

\* Both Likes of a pair were sent by overlapping calls, of which the later to
\* return hit the unique constraint on Match, and all calls have returned.
C1_Witness ==
    /\ Quiescent
    /\ overlap
    /\ Returned("sendLike")
    /\ returned.user # returned.target
    /\ returned.conflict
    /\ MutualLike(returned.user, returned.target)
    /\ NumMatches(returned.user, returned.target) = 1

\* C2: when no operation is in progress, a Match row for {a,b} exists if and
\* only if both Likes exist or an InterestRequest between a and b is accepted.
C2_MatchIffMutualOrAccepted ==
    Quiescent =>
        \A a \in Profiles, b \in Profiles :
            (NumMatches(a, b) > 0) <=> (MutualLike(a, b) \/ AcceptedBetween(a, b))

\* C3: match formation is commutative: whichever Like of a pair came first,
\* the pair ends with the one active Match row (lower id, higher id), and
\* every stored Match has profile1 strictly lower than profile2.
C3_CommutativeCanonical ==
    /\ \A m \in matches : m.profile1 < m.profile2
    /\ \A a \in Profiles, b \in Profiles :
          (Quiescent /\ MutualLike(a, b)) =>
              PairMatches(a, b) = {MatchRow(Profile1(a, b), Profile2(a, b), 1)}

\* C4: a sendLike to the caller's own profile is rejected and stores nothing:
\* no Like has from_profile = to_profile, no Match has profile1 = profile2.
C4_NoSelfLike ==
    /\ \A l \in likes : l.from_profile # l.to_profile
    /\ \A m \in matches : m.profile1 # m.profile2
    /\ (Returned("sendLike") /\ returned.user = returned.target) =>
           returned.resp.status = 400

\* C5: a sendLike call that observed the reciprocal Like does not fail and
\* returns is_match = true, also when the other call of the pair created the
\* Match row first and this call hit the unique constraint.
C5_RaceAbsorbed ==
    (Returned("sendLike") /\ returned.mutual_like) =>
        (returned.resp.status = 201 /\ returned.resp.is_match)

\* A call that observed the reciprocal Like and hit the unique constraint on
\* Match, because an overlapping call for the reverse direction created the
\* row first, has returned is_match = true.
C5_Witness ==
    /\ Returned("sendLike")
    /\ returned.user # returned.target
    /\ returned.mutual_like
    /\ returned.conflict
    /\ returned.resp = Response(201, "like_sent", TRUE)

\* The step in which a sendLike arrives for a pair whose Like is already
\* stored: the call returns 400 'already liked' at once and no Like or Match
\* row changes.
DuplicateLikeStep ==
    \A g \in Arrivals :
        (Arrives("sendLike", g) /\ Liked(g.user, g.target)) =>
            /\ returned'.kind = "sendLike"
            /\ returned'.resp = Response(400, "already_liked", FALSE)
            /\ handlers' = handlers
            /\ likes' = likes
            /\ matches' = matches

\* C6: sendLike(a,b) when Like(a->b) exists is rejected with 'already liked'
\* and changes no Like or Match row (the first Like keeps its type); there is
\* at most one Like row per ordered pair in every reachable state.
C6_DuplicateLikeRejected ==
    /\ [](\A a \in Profiles, b \in Profiles : Cardinality(LikesOf(likes, a, b)) <= 1)
    /\ [][DuplicateLikeStep]_vars

\* A sendLike for a pair whose stored Like is a super_like was rejected, and
\* the stored Like is still the one super_like.
C6_Witness ==
    /\ Returned("sendLike")
    /\ returned.resp.outcome = "already_liked"
    /\ LikesOf(likes, returned.user, returned.target) =
           {LikeRow(returned.user, returned.target, "super_like", 1)}

\* C7: of two concurrent sendLike calls for the same ordered pair one stores
\* the Like and the other ends with the 'already liked' rejection: every
\* returned sendLike either sent its Like or was rejected with 400.
C7_ConcurrentDuplicateRejected ==
    Returned("sendLike") =>
        /\ Cardinality(LikesOf(likes, returned.user, returned.target)) = 1
        /\ \/ returned.resp.outcome = "like_sent"
           \/ returned.resp = Response(400, "already_liked", FALSE)

\* C8: in a sequential execution a successful sendLike(a,b) returns
\* is_match = true if and only if Like(b->a) existed when the call was made.
C8_IsMatchIffReciprocal ==
    (~overlap /\ Returned("sendLike") /\ returned.resp.status = 201) =>
        (returned.resp.is_match <=> returned.recip_at_call)

\* C9: a sendPass to the caller's own profile is rejected with an error and
\* no Pass row with from_profile = to_profile is ever stored.
C9_NoSelfPass ==
    /\ \A p \in passes : p.from_profile # p.to_profile
    /\ (Returned("sendPass") /\ returned.user = returned.target) =>
           returned.resp.status >= 400

\* The step in which a block of the caller's own profile arrives: 400, and
\* no BlockedProfile, Like, Pass or Match row changes.
SelfBlockStep ==
    \A g \in Arrivals :
        (Arrives("block", g) /\ g.user = g.target) =>
            /\ returned'.kind = "block"
            /\ returned'.resp = Response(400, "cannot_block_self", FALSE)
            /\ blocks' = blocks
            /\ likes' = likes
            /\ passes' = passes
            /\ matches' = matches

\* C10: blocking one's own profile is rejected with an error and leaves the
\* BlockedProfile, Like, Pass and Match rows unchanged; no BlockedProfile row
\* has blocker = blocked.
C10_SelfBlockRejected ==
    /\ [](\A b \in blocks : b.blocker # b.blocked)
    /\ [][SelfBlockStep]_vars

\* A self-block was rejected while Like, Match, Pass and BlockedProfile rows
\* were stored.
C10_Witness ==
    /\ Returned("block")
    /\ returned.user = returned.target
    /\ returned.resp.status = 400
    /\ likes # {}
    /\ matches # {}
    /\ passes # {}
    /\ blocks # {}

\* The latest step was taken by a sendPass or block handler.
EdgeHandlerStep ==
    \/ returned'.kind \in {"sendPass", "block"}
    \/ \E g \in Arrivals : Arrives("sendPass", g) \/ Arrives("block", g)

\* C11: sendPass and block are idempotent and frame-preserving: there is
\* never more than one Pass or BlockedProfile row per ordered pair, every
\* sendPass(a,b) and every block(a,b) of another profile returns success with
\* exactly one such row stored, and no step of the two handlers changes a
\* Like or Match row (a stored Match keeps its status).
C11_PassBlockIdempotent ==
    /\ [](\A a \in Profiles, b \in Profiles :
             /\ Cardinality(PassesOf(passes, a, b)) <= 1
             /\ Cardinality(BlocksOf(blocks, a, b)) <= 1)
    /\ [](Returned("sendPass") =>
             /\ returned.resp.status = 200
             /\ Cardinality(PassesOf(passes, returned.user, returned.target)) = 1)
    /\ []((Returned("block") /\ returned.user # returned.target) =>
             /\ returned.resp.status = 200
             /\ Cardinality(BlocksOf(blocks, returned.user, returned.target)) = 1)
    /\ [][EdgeHandlerStep => (likes' = likes /\ matches' = matches)]_vars

\* After a sendPass(1,2), two overlapping block(1,2) calls both tried the
\* insert; the second hit the unique constraint and still succeeded, and the
\* unmatched Match of the pair is stored as before.
C11_Witness ==
    /\ Returned("block")
    /\ returned.user = 1 /\ returned.target = 2
    /\ returned.conflict
    /\ returned.resp.status = 200
    /\ Quiescent
    /\ Cardinality(BlocksOf(blocks, 1, 2)) = 1
    /\ Cardinality(PassesOf(passes, 1, 2)) = 1
    /\ \E m \in matches : m.status = "unmatched"

\* The InterestRequest the returned respond call named.
RespondedInterest ==
    InterestsOf(interests, returned.interest[1], returned.interest[2])

\* C12: when the recipient's accept of a pending InterestRequest between
\* distinct profiles a and b has returned, the request is accepted, both
\* Likes exist and the pair has exactly one Match, stored as (lower, higher).
C12_AcceptCreatesMatch ==
    (/\ Returned("respond")
     /\ returned.action = "accept"
     /\ returned.resp.status = 200
     /\ returned.interest[1] # returned.interest[2]) =>
        LET a == returned.interest[1]
            b == returned.interest[2]
        IN /\ \A i \in RespondedInterest : i.status = "accepted"
           /\ MutualLike(a, b)
           /\ NumMatches(a, b) = 1
           /\ \A m \in PairMatches(a, b) : m.profile1 < m.profile2

\* A decline of an InterestRequest completes in this step.
DeclineStep ==
    /\ returned'.kind = "respond"
    /\ returned'.action = "decline"
    /\ returned'.resp.status = 200

SameRequest(i, j) ==
    i.from_profile = j.from_profile /\ i.to_profile = j.to_profile

\* C13: the step that completes a decline leaves every Like, Pass and Match
\* row and every other InterestRequest as it was and stores the request as
\* declined with a response time; and a request stored as declined is stored
\* as declined after every later step.
C13_DeclineOnlyRequest ==
    [][/\ DeclineStep =>
            LET f == returned'.interest[1]
                t == returned'.interest[2]
            IN /\ likes' = likes
               /\ passes' = passes
               /\ matches' = matches
               /\ interests' \ InterestsOf(interests', f, t)
                      = interests \ InterestsOf(interests, f, t)
               /\ \A i \in InterestsOf(interests', f, t) :
                      i.status = "declined" /\ i.responded_at # 0
       /\ \A i \in interests :
              i.status = "declined" =>
                  \E j \in interests' : SameRequest(i, j) /\ j.status = "declined"
      ]_vars

\* The status of the stored request (f -> t) is pending.
Pending(S, f, t) == \E i \in InterestsOf(S, f, t) : i.status = "pending"

\* A response to an InterestRequest that is no longer pending arrives.
ResolvedResponseStep ==
    \A g \in Arrivals :
        (/\ Arrives("respond", g)
         /\ ~Pending(interests, g.interest[1], g.interest[2])) =>
            /\ returned'.kind = "respond"
            /\ returned'.resp.status \in {400, 404}
            /\ handlers' = handlers
            /\ interests' = interests
            /\ likes' = likes
            /\ matches' = matches

\* C14: a response to a request that is already accepted or declined is
\* rejected and changes nothing; the stored status of a request changes only
\* from pending; and when every call has returned, a request stored as
\* declined has no Like between its two profiles and no Match of the pair.
C14_RespondOnce ==
    /\ [][ResolvedResponseStep]_vars
    /\ [][\A i \in interests : \A j \in interests' :
              (SameRequest(i, j) /\ j.status # i.status) =>
                  i.status = "pending"]_vars
    /\ [](Quiescent =>
            \A i \in interests :
                i.status = "declined" =>
                    /\ ~Liked(i.from_profile, i.to_profile)
                    /\ ~Liked(i.to_profile, i.from_profile)
                    /\ NumMatches(i.from_profile, i.to_profile) = 0)

\* The Match row of table S with the primary key mk.
MatchByPk(S, mk) == {m \in S : MatchPk(m) = mk}

\* C15: every stored Match is still stored after every step (unmatch deletes
\* nothing), and a Match stored with status unmatched has status unmatched
\* after every step.
C15_UnmatchedTerminal ==
    [][\A m \in matches :
          \E n \in matches' :
              /\ MatchPk(n) = MatchPk(m)
              /\ m.status = "unmatched" => n.status = "unmatched"]_vars

\* With no two calls overlapping, a ChatRequest was sent on an active Match,
\* the Match was unmatched, and the request was then accepted: the accept
\* wrote the row, which is stored with status unmatched.
C15_Witness ==
    /\ Returned("respondChat")
    /\ returned.action = "accept"
    /\ returned.resp.status = 200
    /\ ~overlap
    /\ \E m \in MatchByPk(matches, returned.chat_request.match) :
          /\ m.status = "unmatched"
          /\ m.chat_unlocked
          /\ m.chat_unlocked_at > m.unmatched_at

\* An unmatch call returns in this step.
UnmatchReturns == returned'.kind = "unmatch"

\* C16: when unmatch(m, P) returns for a participant P, it returns success,
\* the Match is stored with status unmatched, unmatched_by = P and an unmatch
\* time, and the Likes are as before; for any other caller it returns
\* NotFound and the Match and Like rows are as before.
C16_UnmatchRecords ==
    [][UnmatchReturns =>
          LET P == returned'.user
              m == returned'.match
          IN IF P \in {m.profile1, m.profile2}
             THEN /\ returned'.resp.status = 200
                  /\ MatchByPk(matches', MatchPk(m)) # {}
                  /\ \A n \in MatchByPk(matches', MatchPk(m)) :
                        /\ n.status = "unmatched"
                        /\ n.unmatched_by = P
                        /\ n.unmatched_at # 0
                  /\ likes' = likes
             ELSE /\ returned'.resp.status = 404
                  /\ matches' = matches
                  /\ likes' = likes]_vars

\* Profile 2 has unmatched the Match of {1,2} while another call was in
\* progress: both Likes are stored and the Match records profile 2.
C16_Witness ==
    /\ Returned("unmatch")
    /\ returned.user = 2
    /\ returned.resp.status = 200
    /\ overlap
    /\ MutualLike(1, 2)
    /\ \E m \in PairMatches(1, 2) :
          m.status = "unmatched" /\ m.unmatched_by = 2 /\ m.unmatched_at # 0

\* C17: once the Match of a pair is stored with status unmatched, after
\* every step of sendLike, sendInterest, respond and unmatch the pair has that
\* one Match row and no other, with status unmatched.
C17_NoRematch ==
    [][\A m \in matches :
          m.status = "unmatched" =>
              /\ MatchByPk(matches', MatchPk(m)) # {}
              /\ \A n \in MatchesOf(matches', m.profile1, m.profile2) :
                    MatchPk(n) = MatchPk(m) /\ n.status = "unmatched"]_vars

\* After the Match of {1,2} was unmatched, profile 1 sent an InterestRequest
\* to profile 2 and profile 2's accept has returned: both Likes are stored and
\* the pair has its one Match, unmatched.
C17_Witness ==
    /\ Returned("respond")
    /\ returned.action = "accept"
    /\ returned.resp.status = 200
    /\ returned.interest = <<1, 2>>
    /\ MutualLike(1, 2)
    /\ NumMatches(1, 2) = 1
    /\ \A m \in PairMatches(1, 2) : m.status = "unmatched"

\* C18: a Match stored with chat_unlocked true is stored with chat_unlocked
\* true after every step, also when an unmatch of the Match overlaps the
\* acceptance of a ChatRequest on it.
C18_UnlockSticks ==
    [][\A m \in matches :
          m.chat_unlocked =>
              \A n \in MatchByPk(matches', MatchPk(m)) : n.chat_unlocked]_vars

\* The Match rows this step creates.
CreatedMatches == {n \in matches' : MatchByPk(matches, MatchPk(n)) = {}}

HasPremium(m) == m.profile1 \in premium \/ m.profile2 \in premium

ChatCallSucceeded ==
    /\ returned.kind \in {"openConversation", "sendMessage"}
    /\ returned.resp.status \in {200, 201}

\* C20 as stated: an openConversation or sendMessage call succeeds only if
\* the Match it read has chat_unlocked true.
C20_OnlyIfUnlocked == ChatCallSucceeded => returned.match.chat_unlocked

\* C20 amended: an openConversation or sendMessage call succeeds only if the
\* Match it read has chat_unlocked true or the caller is premium; with
\* chat_unlocked false a caller who is not premium is refused.
C20_OnlyIfUnlockedOrPremium ==
    /\ ChatCallSucceeded =>
          returned.match.chat_unlocked \/ returned.user \in premium
    /\ (/\ returned.kind \in {"openConversation", "sendMessage"}
        /\ returned.resp.status # 404
        /\ ~returned.match.chat_unlocked
        /\ returned.user \notin premium) => returned.resp.status = 403

\* A premium participant's message on a locked Match was stored.
C20_Witness ==
    /\ Returned("sendMessage")
    /\ returned.resp.status = 201
    /\ ~returned.match.chat_unlocked
    /\ returned.user \in premium
    /\ \E m \in messages :
          m.sender = returned.user /\ m.conversation = MatchPk(returned.match)

\* A decline of a ChatRequest completes in this step.
ChatDeclineStep ==
    /\ returned'.kind = "respondChat"
    /\ returned'.action = "decline"
    /\ returned'.resp.status = 200

\* An accepted ChatRequest tied to the Match m is stored.
AcceptedChatRequest(m) ==
    \E r \in chatRequests : r.match = MatchPk(m) /\ r.status = "accepted"

\* C21: when the accept of a ChatRequest has returned, the Match the request
\* is tied to is stored with chat_unlocked true; in every state a Match with
\* chat_unlocked true has an accepted ChatRequest tied to it or a premium
\* participant; and the step that completes a decline leaves every Match row
\* as it was.
C21_UnlockedByAccept ==
    /\ []((/\ Returned("respondChat")
           /\ returned.action = "accept"
           /\ returned.resp.status = 200) =>
             \A m \in MatchByPk(matches, returned.chat_request.match) :
                 m.chat_unlocked)
    /\ [](\A m \in matches :
             m.chat_unlocked => (AcceptedChatRequest(m) \/ HasPremium(m)))
    /\ [][ChatDeclineStep => matches' = matches]_vars

\* C22: in every state, for every ordered pair (a,b), Like(a->b) and
\* Pass(a->b) are not both stored.
C22_LikedOrPassed ==
    \A a \in Profiles, b \in Profiles :
        ~(Liked(a, b) /\ PassesOf(passes, a, b) # {})

\* C23: after likes, passes, blocks and unblocks, one after the other, a
\* recommendation holds only eligible candidates: not the requester, no
\* profile the requester has liked, passed or blocked or that has blocked the
\* requester, no id of exclude_ids, and only profiles of active, approved,
\* not banned users of the other gender.
C23_EligibleOnly ==
    Returned("recommend") =>
        \A i \in 1..Len(returned.result) :
            LET p == returned.result[i].profile
                u == returned.user
            IN /\ p # u
               /\ ~Liked(u, p)
               /\ PassesOf(passes, u, p) = {}
               /\ BlocksOf(blocks, u, p) = {}
               /\ BlocksOf(blocks, p, u) = {}
               /\ p \notin returned.exclude_ids
               /\ profileRows[p].is_active
               /\ profileRows[p].is_profile_approved
               /\ ~profileRows[p].is_banned
               /\ {profileRows[p].gender, profileRows[u].gender} = {"M", "F"}

\* A profile that another profile has blocked got recommendations.
C23_Witness ==
    /\ Returned("recommend")
    /\ \E q \in Profiles : BlocksOf(blocks, q, returned.user) # {}
    /\ Len(returned.result) > 0

\* The candidate pool of the returned recommendation, in iteration order.
RankPool ==
    OrderByCreatedAt(Candidates(returned.user, returned.exclude_ids))

\* The total the scorer gives candidate p for the requester.
RankScore(p) ==
    calculate_compatibility(returned.user, profileRows[p]).total_score

\* C24: a recommendation holds min(limit, pool size, 100) different
\* candidates, all among the first 100 of the pool, each with its score,
\* highest score first and equal scores in pool order (newest first); no
\* scored candidate left out scores higher than one that is returned.  The
\* scores are those of the day of the call.
C24_RankCapped ==
    (Returned("recommend") /\ returned.called_on = today) =>
        LET res == returned.result
            pool == RankPool
            n == IF Len(pool) < PoolCap THEN Len(pool) ELSE PoolCap
            scored == {pool[k] : k \in 1..n}
            chosen == {res[i].profile : i \in 1..Len(res)}
        IN /\ Len(res) = (IF returned.limit < n THEN returned.limit ELSE n)
           /\ Cardinality(chosen) = Len(res)
           /\ chosen \subseteq scored
           /\ \A i \in 1..Len(res) :
                 res[i].score = RankScore(res[i].profile)
           /\ \A i \in 1..(Len(res) - 1) :
                 /\ res[i].score >= res[i + 1].score
                 /\ res[i].score = res[i + 1].score =>
                       profileRows[res[i].profile].created_at >
                           profileRows[res[i + 1].profile].created_at
           /\ \A p \in scored \ chosen :
                 \A i \in 1..Len(res) : res[i].score >= RankScore(p)

\* A recommendation of 100 candidates was returned from a larger pool whose
\* 101st candidate scores higher than every candidate returned.
C24_Witness ==
    /\ Returned("recommend")
    /\ returned.called_on = today
    /\ Len(RankPool) > PoolCap
    /\ Len(returned.result) = PoolCap
    /\ RankScore(RankPool[PoolCap + 1]) > returned.result[1].score

ScoredWithPreference ==
    Returned("compatibility") /\ PartnerPreferences(returned.user) # {}

\* The PartnerPreference row and the candidate of the returned request.
ScoredPreference == CHOOSE r \in PartnerPreferences(returned.user) : TRUE

ScoredTarget == profileRows[returned.target]

\* C26: the total of every score lies between 0 and 100 (0 and 1000 tenths)
\* and so does every dimension score of its breakdown.
C26_ScoreInRange ==
    Returned("compatibility") =>
        /\ 0 <= returned.result.total_score
        /\ returned.result.total_score <= 1000
        /\ \A d \in DOMAIN returned.result.breakdown :
              /\ 0 <= returned.result.breakdown[d]
              /\ returned.result.breakdown[d] <= 100

\* A candidate matching a preference for city, state and country was scored:
\* the location score is the sum of the three parts.
C26_Witness ==
    /\ ScoredWithPreference
    /\ ScoredPreference.city # {}
    /\ ScoredPreference.state # {}
    /\ ScoredPreference.country # {}
    /\ returned.result.breakdown.location = 100
    /\ returned.result.total_score > 0

\* C27: a profile without a PartnerPreference row is answered with total 50,
\* an empty breakdown and no good match, whoever the candidate is; the
\* request succeeds.
C27_BaseScore ==
    (Returned("compatibility") /\ PartnerPreferences(returned.user) = {}) =>
        /\ returned.resp.status = 200
        /\ returned.result.total_score = 500
        /\ DOMAIN returned.result.breakdown = {}
        /\ returned.result.is_match = FALSE

\* A profile without preferences was scored against a candidate that falls
\* outside every preference another profile holds.
C27_Witness ==
    /\ Returned("compatibility")
    /\ PartnerPreferences(returned.user) = {}
    /\ returned.target # returned.user
    /\ returned.result.total_score = 500

\* The candidate meets every preference at full score: inside the age and
\* height ranges, religion, education, diet and marital status in the lists,
\* caste no bar, no city, state or country preference.
PerfectCandidate ==
    /\ ScoredWithPreference
    /\ ScoredPreference.age_from <= calculate_age(ScoredTarget.date_of_birth)
    /\ calculate_age(ScoredTarget.date_of_birth) <= ScoredPreference.age_to
    /\ ScoredPreference.height_from # 0
    /\ ScoredPreference.height_from <= ScoredTarget.height_cm
    /\ ScoredTarget.height_cm <= ScoredPreference.height_to
    /\ ScoredTarget.religion \in ScoredPreference.religion
    /\ ScoredTarget.education \in ScoredPreference.education
    /\ ScoredTarget.diet \in ScoredPreference.diet
    /\ ScoredTarget.marital_status \in ScoredPreference.marital_status
    /\ ScoredPreference.caste_no_bar
    /\ ScoredPreference.city = {}
    /\ ScoredPreference.state = {}
    /\ ScoredPreference.country = {}

C29_NormalizedByUsedWeights ==
    ScoredWithPreference =>
        returned.result.total_score =
            RoundTenths(WeightedScore(returned.result.breakdown),
                        SumOver(WEIGHTS, Dimensions))

\* The candidate of the returned request is 38 and was scored against the
\* age range 25 to 35.
Aged38Against25To35 ==
    /\ ScoredWithPreference
    /\ ScoredPreference.age_from = 25
    /\ ScoredPreference.age_to = 35
    /\ calculate_age(ScoredTarget.date_of_birth) = 38

\* C30 as stated: a candidate aged 38 gets an age score of 70 against the
\* range 25 to 35.
C30_Age38Scores70 == Aged38Against25To35 => returned.result.breakdown.age = 70

\* C30: a candidate aged 38 gets an age score of 40 against the range 25 to
\* 35: the distance 3 is beyond the two years that score 70.
C30_Age38Scores40 == Aged38Against25To35 => returned.result.breakdown.age = 40

\* A candidate aged 38 was scored against the range 25 to 35.
C30_Witness == Aged38Against25To35 /\ returned.result.breakdown.age = 40

\* The age of the candidate of the returned request.
ScoredAge == calculate_age(ScoredTarget.date_of_birth)

C32_GoodMatchIffSixty ==
    ScoredWithPreference =>
        (returned.result.is_match <=> returned.result.total_score >= 600)

\* A score with a total of exactly 60.0 was flagged a good match.
C32_Witness ==
    /\ ScoredWithPreference
    /\ returned.result.total_score = 600
    /\ returned.result.is_match

\* C33: an empty list scores 100 and so does a value in the list; a value
\* outside a list that is not empty scores 0 for religion and marital status,
\* 30 for education and diet and 50 for caste, where caste is compared
\* without regard to letter case and caste_no_bar gives 100 whatever the list.
C33_SetDimensions ==
    ScoredWithPreference =>
        LET pref == ScoredPreference
            target == ScoredTarget
            b == returned.result.breakdown
        IN /\ b.religion =
                 (IF pref.religion = {} \/ target.religion \in pref.religion
                  THEN 100 ELSE 0)
           /\ b.marital_status =
                 (IF \/ pref.marital_status = {}
                     \/ target.marital_status \in pref.marital_status
                  THEN 100 ELSE 0)
           /\ b.education =
                 (IF pref.education = {} \/ target.education \in pref.education
                  THEN 100 ELSE 30)
           /\ b.diet =
                 (IF pref.diet = {} \/ target.diet \in pref.diet
                  THEN 100 ELSE 30)
           /\ b.caste =
                 (IF \/ pref.caste_no_bar
                     \/ pref.caste = {}
                     \/ \E c \in pref.caste : Lower(c) = Lower(target.caste)
                  THEN 100 ELSE 50)

\* A candidate whose caste is in the list in another letter case, and whose
\* religion is outside the list, was scored.
C33_Witness ==
    /\ ScoredWithPreference
    /\ ~ScoredPreference.caste_no_bar
    /\ ScoredTarget.caste \notin ScoredPreference.caste
    /\ returned.result.breakdown.caste = 100
    /\ ScoredPreference.religion # {}
    /\ returned.result.breakdown.religion = 0

\* C34: a sendMessage call that read its conversation's Match as unmatched is
\* refused, whoever the sender is: it does not return 201.
C34_NoMessageAfterUnmatch ==
    (Returned("sendMessage") /\ returned.match.status = "unmatched") =>
        returned.resp.status # 201

\* The messages of conversation c that profile p has not read: those of the
\* other participant that no mark-as-read call of p has marked, which with no
\* call in progress are those sent since p last marked the conversation.
UnreadBy(c, p) ==
    {m \in messages : m.conversation = c.match /\ m.sender # p /\ ~m.is_read}

\* C39: with no call in progress, each participant's unread counter of a
\* conversation is the number of messages the other participant has sent
\* since this participant last marked the conversation as read.
C39_UnreadCountsExact ==
    Quiescent =>
        \A c \in conversations :
            c.participant1 # c.participant2 =>
                /\ c.unread_count_p1 = Cardinality(UnreadBy(c, c.participant1))
                /\ c.unread_count_p2 = Cardinality(UnreadBy(c, c.participant2))

\* A BlockedProfile row is stored between a and b, in one direction or the
\* other.
BlockBetween(a, b) ==
    \E k \in blocks : {k.blocker, k.blocked} = {a, b} /\ a # b

\* C35: a sendLike call between two profiles with a BlockedProfile row between
\* them is not accepted: it stores no Like and forms no Match.
C35_NoLikeAcrossBlock ==
    (Returned("sendLike") /\ BlockBetween(returned.user, returned.target)) =>
        returned.resp.status # 201

\* A response to an InterestRequest or a ChatRequest arrives from a profile
\* that is not the request's recipient.
NotRecipient(g) ==
    \/ g.kind = "respond" /\ g.user # g.interest[2]
    \/ g.kind = "respondChat" /\ g.user # g.chat_request.to_profile

\* C36: a response to an InterestRequest or ChatRequest by a profile other
\* than its recipient returns 404 at once and leaves the requests, the Likes
\* and the Matches as they were.
C36_OnlyRecipientResponds ==
    [][\A g \in Arrivals :
          ((Arrives("respond", g) \/ Arrives("respondChat", g))
              /\ NotRecipient(g)) =>
             /\ returned' = g
             /\ g.resp.status = 404
             /\ handlers' = handlers
             /\ interests' = interests
             /\ chatRequests' = chatRequests
             /\ likes' = likes
             /\ matches' = matches
      ]_vars

\* The sender of a pending request responded to it and got 404, and the
\* request is still pending.
C36_Witness ==
    /\ returned.kind \in {"respond", "respondChat"}
    /\ NotRecipient(returned)
    /\ returned.resp.status = 404
    /\ \/ /\ returned.kind = "respond"
          /\ returned.user = returned.interest[1]
          /\ Pending(interests, returned.interest[1], returned.interest[2])
       \/ /\ returned.kind = "respondChat"
          /\ returned.user = returned.chat_request.from_profile
          /\ returned.chat_request \in chatRequests
          /\ returned.chat_request.status = "pending"

\* C37: unmatched_by and unmatched_at of a Match are written once: a Match
\* stored with status unmatched has the same unmatched_by and unmatched_at
\* after every step.
C37_UnmatchWrittenOnce ==
    [][\A m \in matches :
          m.status = "unmatched" =>
              \A n \in MatchByPk(matches', MatchPk(m)) :
                  /\ n.unmatched_by = m.unmatched_by
                  /\ n.unmatched_at = m.unmatched_at]_vars

\* C38: the chat of a Match stored with status unmatched and chat_unlocked
\* false is still locked after every step.
C38_NoUnlockWhenUnmatched ==
    [][\A m \in matches :
          (m.status = "unmatched" /\ ~m.chat_unlocked) =>
              \A n \in MatchByPk(matches', MatchPk(m)) : ~n.chat_unlocked]_vars

====
